---- MODULE Spec2Model ----
(***************************************************************************)
(* Model of the kitty library core: backend/library (Manager), the path    *)
(* list store (backend/storage) and backend/metadata (LoadMetadata,        *)
(* SaveMetadata, sidecars, mergeMetadata).                                 *)
(*                                                                         *)
(* Every goroutine that calls into the Manager is a process of Procs with  *)
(* a program counter; the Manager's mutex is the variable mu.  The merge   *)
(* of loadAndMerge is a Lock step followed by the rounds of its loop, the  *)
(* last step of which unlocks; every other critical section is one step    *)
(* that the mutex being free enables.                                      *)
(***************************************************************************)
EXTENDS Integers, Sequences, FiniteSets, TLC

\* ------------------------------------------------------------------ bounds
MaxCalls == 2     \* calls started in one behaviour, over all processes

Procs == {"g1", "g2"}
Paths == {"a.flac", "b.mp3", "c.wav"}
NoOne == "none"

\* ------------------------------------------------------------------ paths
\* filepath.Base, filepath.Ext and trimExt over the model's paths.
Base(path) == path

Ext(path) ==
  CASE path = "a.flac" -> ".flac"
    [] path = "b.mp3" -> ".mp3"
    [] path = "c.wav" -> ".wav"
    [] OTHER -> ""

trimExt(name) ==
  CASE name = "a.flac" -> "a"
    [] name = "b.mp3" -> "b"
    [] name = "c.wav" -> "c"
    [] OTHER -> name

\* strings.TrimPrefix(strings.ToUpper(filepath.Ext(path)), ".")
ExtFormat(path) ==
  CASE Ext(path) = ".flac" -> "FLAC"
    [] Ext(path) = ".mp3" -> "MP3"
    [] Ext(path) = ".wav" -> "WAV"
    [] OTHER -> ""

\* strings.TrimSpace over the model's strings: " " is the blank one.
TrimSpace(s) == IF s = " " THEN "" ELSE s

\* ------------------------------------------------------------------ records
TrackMetadata(path) ==
  [FilePath |-> path, FileName |-> "", Title |-> "", Artist |-> "",
   Album |-> "", AlbumArtist |-> "", TrackNumber |-> 0, DiscNumber |-> 0,
   Genre |-> "", Year |-> 0, Comment |-> "", Composer |-> "", Lyrics |-> "",
   HasCover |-> FALSE, CoverImage |-> "", Format |-> "", Bitrate |-> 0,
   SampleRate |-> 0]

minimalMetadata(path) ==
  [TrackMetadata(path) EXCEPT
     !.FileName = Base(path),
     !.Title = trimExt(Base(path)),
     !.Artist = "Unknown Artist",
     !.Album = "Unknown Album",
     !.Format = ExtFormat(path)]

firstNonEmpty(v1, v2) ==
  IF TrimSpace(v1) # "" THEN v1 ELSE IF TrimSpace(v2) # "" THEN v2 ELSE ""

\* Mutant of mergeMetadata: the override replaces the base record-wise.
mergeMetadataRecordWise(base, override) ==
  [override EXCEPT !.FilePath = base.FilePath, !.FileName = base.FileName]

\* Mutant of mergeMetadata: the override is ignored.
mergeMetadataKeepBase(base, override) == base

mergeMetadata(base, override) ==
  [base EXCEPT
     !.Title = IF TrimSpace(override.Title) # "" THEN override.Title ELSE @,
     !.Artist = IF TrimSpace(override.Artist) # "" THEN override.Artist ELSE @,
     !.Album = IF TrimSpace(override.Album) # "" THEN override.Album ELSE @,
     !.AlbumArtist =
        IF TrimSpace(override.AlbumArtist) # "" THEN override.AlbumArtist ELSE @,
     !.Genre = IF TrimSpace(override.Genre) # "" THEN override.Genre ELSE @,
     !.Comment = IF TrimSpace(override.Comment) # "" THEN override.Comment ELSE @,
     !.Composer =
        IF TrimSpace(override.Composer) # "" THEN override.Composer ELSE @,
     !.Lyrics = IF TrimSpace(override.Lyrics) # "" THEN override.Lyrics ELSE @,
     !.TrackNumber = IF override.TrackNumber > 0 THEN override.TrackNumber ELSE @,
     !.DiscNumber = IF override.DiscNumber > 0 THEN override.DiscNumber ELSE @,
     !.Year = IF override.Year > 0 THEN override.Year ELSE @,
     !.CoverImage =
        IF override.HasCover /\ TrimSpace(override.CoverImage) # ""
        THEN override.CoverImage ELSE @,
     !.HasCover =
        IF override.HasCover /\ TrimSpace(override.CoverImage) # ""
        THEN TRUE ELSE @,
     !.Format = IF TrimSpace(override.Format) # "" THEN override.Format ELSE @,
     !.Bitrate = IF override.Bitrate > 0 THEN override.Bitrate ELSE @,
     !.SampleRate = IF override.SampleRate > 0 THEN override.SampleRate ELSE @]

\* ------------------------------------------------------------------ state
VARIABLES
  tracks,     \* Manager.tracks: path -> record, a function on the indexed paths
  order,      \* Manager.order: the paths in insertion order
  mu,         \* Manager.mu: the process that holds the mutex, or NoOne
  stored,     \* the files kitty_library.json and metago_library.json
  files,      \* the audio files: path -> [exists, tagged, tag]
  sidecars,   \* hashed sidecar location: path -> <<>> or <<JSON document>>
  legacy,     \* <path>.kittymeta.json: path -> <<>> or <<JSON document>>
  env,        \* the machine: [config, dir, legacyOK], see DiskOK
  pc,         \* process -> the statement it is at
  call,       \* process -> the call it runs: [op, paths, persist, path, md, base]
  loc,        \* process -> the locals of loadAndMerge
  ret,        \* process -> what its call returned
  hist,       \* process -> what the claims record about its call
  calls,      \* the calls started so far: how many, and the latest of them
  client      \* the downloader's Client and the API process it spawns

vars == <<tracks, order, mu, stored, files, sidecars, legacy, env,
          pc, call, loc, ret, hist, calls, client>>

\* ------------------------------------------------------------------ disk
\* What tag.ReadFrom yields for a tagged file: the raw fields of the tag.
RawTag(title, artist, format) ==
  [Title |-> title, Artist |-> artist, Album |-> "", AlbumArtist |-> "",
   Track |-> 0, Disc |-> 0, Genre |-> "", Year |-> 0, Comment |-> "",
   Composer |-> "", Lyrics |-> "", Format |-> format, Picture |-> "",
   MIMEType |-> ""]

\* The files of the model's disk as they are when present.
PresentFile(path) ==
  CASE path = "a.flac" ->
         [exists |-> TRUE, tagged |-> TRUE, tag |-> RawTag("A", "", "FLAC")]
    [] path = "b.mp3" ->
         [exists |-> TRUE, tagged |-> TRUE, tag |-> RawTag("", "Bee", "ID3v2.3")]
    [] OTHER ->
         [exists |-> TRUE, tagged |-> FALSE, tag |-> RawTag("", "", "")]

MissingFile == [exists |-> FALSE, tagged |-> FALSE, tag |-> RawTag("", "", "")]

\* len(pic.Data) for the pictures of the model; "huge" is above the ceiling.
maxCoverBytes == 8388608
PicLen(pic) == IF pic = "huge" THEN maxCoverBytes + 1 ELSE 1

\* fmt.Sprintf("data:%s;base64,%s", mimeType, base64(pic.Data))
DataURL(mime, pic) ==
  CASE mime = "image/png" /\ pic = "img" -> "data:image/png;base64,img"
    [] mime = "image/jpeg" /\ pic = "img" -> "data:image/jpeg;base64,img"
    [] OTHER -> "data:image/jpeg;base64,other"

\* analysis.GetAudioProperties: an error for files it cannot decode.
AudioProperties(path) ==
  CASE path = "a.flac" -> [ok |-> TRUE, Bitrate |-> 900, SampleRate |-> 44100]
    [] path = "b.mp3" -> [ok |-> TRUE, Bitrate |-> 320, SampleRate |-> 48000]
    [] OTHER -> [ok |-> FALSE, Bitrate |-> 0, SampleRate |-> 0]

\* The machine.  config: os.UserConfigDir() succeeds; dir: the directory
\* <config>/Kitty/sidecars is "present", "missing" (MkdirAll creates it) or
\* "blocked" (it cannot be created or written); legacyOK: the directories of
\* the audio files take writes and removals.
DiskOK == [config |-> TRUE, dir |-> "present", legacyOK |-> TRUE]

\* sidecarDir() returns no error.
sidecarDirOK == env.config

\* The strings of the model that are not valid UTF-8, and what json.Marshal
\* writes for them (each invalid byte becomes U+FFFD).
CoerceUTF8(str) == IF str = "<ff>" THEN "<fffd>" ELSE str

\* json.Marshal(md) with the struct tags of TrackMetadata.
Marshal(md) ==
  [filePath |-> CoerceUTF8(md.FilePath), fileName |-> CoerceUTF8(md.FileName),
   title |-> CoerceUTF8(md.Title), artist |-> CoerceUTF8(md.Artist),
   album |-> CoerceUTF8(md.Album), albumArtist |-> CoerceUTF8(md.AlbumArtist),
   trackNumber |-> md.TrackNumber, discNumber |-> md.DiscNumber,
   genre |-> CoerceUTF8(md.Genre), year |-> md.Year,
   comment |-> CoerceUTF8(md.Comment), composer |-> CoerceUTF8(md.Composer),
   lyrics |-> CoerceUTF8(md.Lyrics), hasCover |-> md.HasCover,
   coverImage |-> CoerceUTF8(md.CoverImage), format |-> CoerceUTF8(md.Format),
   bitrate |-> md.Bitrate, sampleRate |-> md.SampleRate]

\* Mutant of Unmarshal: the cover image has no field to land in.
UnmarshalNoCover(data) ==
  [FilePath |-> data.filePath, FileName |-> data.fileName,
   Title |-> data.title, Artist |-> data.artist, Album |-> data.album,
   AlbumArtist |-> data.albumArtist, TrackNumber |-> data.trackNumber,
   DiscNumber |-> data.discNumber, Genre |-> data.genre, Year |-> data.year,
   Comment |-> data.comment, Composer |-> data.composer,
   Lyrics |-> data.lyrics, HasCover |-> data.hasCover,
   CoverImage |-> "", Format |-> data.format,
   Bitrate |-> data.bitrate, SampleRate |-> data.sampleRate]

\* json.Unmarshal(data, &md) of a document Marshal wrote.
Unmarshal(data) ==
  [FilePath |-> data.filePath, FileName |-> data.fileName,
   Title |-> data.title, Artist |-> data.artist, Album |-> data.album,
   AlbumArtist |-> data.albumArtist, TrackNumber |-> data.trackNumber,
   DiscNumber |-> data.discNumber, Genre |-> data.genre, Year |-> data.year,
   Comment |-> data.comment, Composer |-> data.composer,
   Lyrics |-> data.lyrics, HasCover |-> data.hasCover,
   CoverImage |-> data.coverImage, Format |-> data.format,
   Bitrate |-> data.bitrate, SampleRate |-> data.sampleRate]

\* A sidecar file json.Unmarshal rejects (lines 286-288).
Corrupt == [corrupt |-> TRUE]

\* os.ReadFile(sidecarPath(path)): <<>> for an error, else <<document>>.
ReadPrimary(path) ==
  IF ~sidecarDirOK THEN legacy[path]
  ELSE IF env.dir = "missing" THEN <<>> ELSE sidecars[path]

\* Lines 273-284: the document readSidecar decodes, <<>> when it returns the
\* error of the first read.
ReadData(path) ==
  IF ReadPrimary(path) # <<>> THEN ReadPrimary(path)
  ELSE IF ~sidecarDirOK THEN <<>> ELSE legacy[path]

\* os.Stat(primary) reports that the hashed file does not exist.
PrimaryNotExist(path) == env.dir = "missing" \/ sidecars[path] = <<>>

\* readSidecar's result: ok, the record, and whether it migrates the legacy
\* content to the hashed location.
readSidecar(path) ==
  LET data == ReadData(path)
  IN  IF data = <<>> \/ data[1] = Corrupt
      THEN [ok |-> FALSE, md |-> TrackMetadata(path), migrate |-> FALSE]
      ELSE [ok |-> TRUE,
            md |-> [Unmarshal(data[1]) EXCEPT !.FilePath = path,
                                              !.FileName = Base(path)],
            migrate |-> sidecarDirOK /\ PrimaryNotExist(path)]

\* The record LoadMetadata builds from the file alone (lines 49-97).
tagMetadata(path) ==
  LET m == files[path].tag
      props == AudioProperties(path)
      cover == m.Picture # "" /\ PicLen(m.Picture) <= maxCoverBytes
  IN  IF ~files[path].tagged THEN minimalMetadata(path)
      ELSE [TrackMetadata(path) EXCEPT
              !.FileName = Base(path),
              !.Title = firstNonEmpty(m.Title, trimExt(Base(path))),
              !.Artist = firstNonEmpty(m.Artist, "Unknown Artist"),
              !.Album = firstNonEmpty(m.Album, "Unknown Album"),
              !.AlbumArtist = m.AlbumArtist,
              !.TrackNumber = m.Track,
              !.DiscNumber = m.Disc,
              !.Genre = m.Genre,
              !.Year = m.Year,
              !.Comment = m.Comment,
              !.Composer = m.Composer,
              !.Lyrics = m.Lyrics,
              !.Format = firstNonEmpty(m.Format, ExtFormat(path)),
              !.HasCover = cover,
              !.CoverImage =
                 IF cover
                 THEN DataURL(IF m.MIMEType = "" THEN "image/jpeg" ELSE m.MIMEType,
                              m.Picture)
                 ELSE "",
              !.Bitrate = IF props.ok THEN props.Bitrate ELSE 0,
              !.SampleRate = IF props.ok THEN props.SampleRate ELSE 0]

\* Mutant of LoadMetadata: the sidecar is not consulted.
LoadMetadataTagOnly(path) ==
  IF ~files[path].exists THEN [err |-> TRUE, md |-> TrackMetadata(path)]
  ELSE [err |-> FALSE, md |-> tagMetadata(path)]

\* LoadMetadata's result: err (os.Open failed) or the record.
LoadMetadata(path) ==
  LET side == readSidecar(path)
  IN  IF ~files[path].exists
      THEN [err |-> TRUE, md |-> TrackMetadata(path)]
      ELSE [err |-> FALSE,
            md |-> IF side.ok THEN mergeMetadata(tagMetadata(path), side.md)
                   ELSE tagMetadata(path)]

\* The sidecar stores and the machine.
Sidecars == [sidecars |-> sidecars, legacy |-> legacy, env |-> env]

\* writeSidecar(md) on the stores d, when the disk has room for the write
\* (io) or not: err and the stores after it.  Without a config directory
\* sidecarPath is the legacy path; otherwise MkdirAll and WriteFile act on
\* the hashed location and a failure of either is returned, and the legacy
\* file is removed when the write succeeded, an error of the removal being
\* dropped.
writeSidecar(md, d, io) ==
  LET path == md.FilePath
  IN  IF ~d.env.config
      THEN IF d.env.legacyOK /\ io
           THEN [err |-> FALSE, sidecars |-> d.sidecars,
                 legacy |-> [d.legacy EXCEPT ![path] = <<Marshal(md)>>],
                 env |-> d.env]
           ELSE [err |-> TRUE, sidecars |-> d.sidecars, legacy |-> d.legacy,
                 env |-> d.env]
      ELSE IF d.env.dir = "blocked"
           THEN [err |-> TRUE, sidecars |-> d.sidecars, legacy |-> d.legacy,
                 env |-> d.env]
           ELSE IF ~io
                THEN [err |-> TRUE, sidecars |-> d.sidecars,
                      legacy |-> d.legacy,
                      env |-> [d.env EXCEPT !.dir = "present"]]
                ELSE [err |-> FALSE,
                      sidecars |-> [d.sidecars EXCEPT ![path] = <<Marshal(md)>>],
                      legacy |-> IF d.env.legacyOK
                                 THEN [d.legacy EXCEPT ![path] = <<>>]
                                 ELSE d.legacy,
                      env |-> [d.env EXCEPT !.dir = "present"]]

\* The sidecar stores after LoadMetadata(path): readSidecar's migration, the
\* error of which is dropped.
LoadMetadataDisk(path) ==
  LET side == readSidecar(path)
  IN  IF files[path].exists /\ side.ok /\ side.migrate
      THEN writeSidecar(side.md, Sidecars, TRUE)
      ELSE [err |-> FALSE, sidecars |-> sidecars, legacy |-> legacy,
            env |-> env]

\* A path-list file: absent, unreadable (os.ReadFile fails with an error
\* other than not-exist), corrupt (json.Unmarshal rejects it) or ok with its
\* list.
NoFile == [state |-> "absent", files |-> <<>>]
ListFile(list) == [state |-> "ok", files |-> list]
BadFile(state) == [state |-> state, files |-> <<>>]

\* No path-list file of either name.
NoStore == [kitty |-> NoFile, metago |-> NoFile]

\* SaveLibrary(files): the file under the current name after a write that
\* succeeded.
SaveLibrary(list) == [stored EXCEPT !.kitty = ListFile(list)]

\* The file LoadLibrary decodes: the current one, or the legacy one when
\* reading the current one failed with an error other than not-exist.
LoadedFile ==
  IF stored.kitty.state = "unreadable" THEN stored.metago ELSE stored.kitty

\* LoadLibrary's error: a read error of the current file with no readable
\* legacy file, or a document that is not JSON.
LoadLibraryErr == LoadedFile.state \in {"unreadable", "corrupt"}
                    \/ (stored.kitty.state = "unreadable"
                          /\ stored.metago.state = "absent")

\* LoadLibrary's path list.
LoadLibrary == IF LoadedFile.state = "ok" THEN LoadedFile.files ELSE <<>>

\* ------------------------------------------------------------------ helpers
Range(s) == {s[i] : i \in 1..Len(s)}

IsPrefix(s, t) == Len(s) <= Len(t) /\ SubSeq(t, 1, Len(s)) = s

NoDup(s) == \A i, j \in 1..Len(s) : i # j => s[i] # s[j]

\* The FilePath of each record of a snapshot.
PathsOf(list) == [i \in 1..Len(list) |-> list[i].FilePath]

\* The path lists handed to AddFiles: the empty list, one path, a path
\* repeated, two paths, and two paths the first of which may be missing.
PathLists ==
  {<<>>, <<"c.wav">>, <<"a.flac", "a.flac">>, <<"a.flac", "b.mp3">>,
   <<"c.wav", "b.mp3">>}

\* fmt.Sprintf("%s: %v", path, err) and fmt.Sprintf("save library failed: %v", err)
ErrorEntry(path, cause) == <<path, cause>>
SaveErrorEntry == <<"save library failed", "write">>

\* ------------------------------------------------------------------ Manager
\* Manager.hasPath
hasPath(ord, path) == \E i \in 1..Len(ord) : ord[i] = path

\* Manager.snapshotLocked
RECURSIVE snapshotLocked(_, _)
snapshotLocked(ord, trk) ==
  IF ord = <<>> THEN <<>>
  ELSE LET rest == snapshotLocked(Tail(ord), trk)
       IN  IF Head(ord) \in DOMAIN trk THEN <<trk[Head(ord)]>> \o rest ELSE rest

\* Manager.filterNew: the first occurrence of each path that is not indexed.
RECURSIVE filterNewFrom(_, _, _)
filterNewFrom(paths, seen, trk) ==
  IF paths = <<>> THEN <<>>
  ELSE LET p == Head(paths)
       IN  IF p \in seen THEN filterNewFrom(Tail(paths), seen, trk)
           ELSE IF p \notin DOMAIN trk
                THEN <<p>> \o filterNewFrom(Tail(paths), seen \cup {p}, trk)
                ELSE filterNewFrom(Tail(paths), seen \cup {p}, trk)

\* Mutant of filterNew: only the repeats within the input are dropped.
filterNewInputOnly(paths, trk) == filterNewFrom(paths, {}, <<>>)

filterNew(paths, trk) == filterNewFrom(paths, {}, trk)

\* Mutant of orderedNewTracks: the records stay in completion order.
orderedNewTracksUnordered(unique, newTracks) == newTracks

\* loadAndMerge lines 120-129: the loaded records in the order of unique.
RECURSIVE orderedNewTracks(_, _)
orderedNewTracks(unique, newTracks) ==
  IF unique = <<>> THEN <<>>
  ELSE LET hits == {i \in 1..Len(newTracks) : newTracks[i].FilePath = Head(unique)}
           rest == orderedNewTracks(Tail(unique), newTracks)
       IN  IF hits = {} THEN rest
           ELSE <<newTracks[CHOOSE i \in hits : \A j \in hits : j <= i]>> \o rest

\* runtime.NumCPU() of the model's machine, and loadAndMerge's worker count.
NumCPU == 1
workerCount(unique) == IF Len(unique) < NumCPU * 8 THEN Len(unique) ELSE NumCPU * 8

\* One round of the merge loop (lines 134-137): the order sequence after it.
mergeOrder(ord, trk, t) ==
  IF t.FilePath \notin DOMAIN trk THEN Append(ord, t.FilePath) ELSE ord

\* Mutant of putTrack: the store into the map is lost.
putTrackDropped(trk, key, t) == trk

\* m.tracks[key] = t
putTrack(trk, key, t) ==
  [k \in (DOMAIN trk) \cup {key} |-> IF k = key THEN t ELSE trk[k]]

\* ApplyMetadata's field-wise overlay of an existing record (lines 168-205).
applyOverlay(existing, overlay) ==
  [existing EXCEPT
     !.Title = IF overlay.Title # "" THEN overlay.Title ELSE @,
     !.Artist = IF overlay.Artist # "" THEN overlay.Artist ELSE @,
     !.Album = IF overlay.Album # "" THEN overlay.Album ELSE @,
     !.AlbumArtist = IF overlay.AlbumArtist # "" THEN overlay.AlbumArtist ELSE @,
     !.Genre = IF overlay.Genre # "" THEN overlay.Genre ELSE @,
     !.Comment = IF overlay.Comment # "" THEN overlay.Comment ELSE @,
     !.Composer = IF overlay.Composer # "" THEN overlay.Composer ELSE @,
     !.Lyrics = IF overlay.Lyrics # "" THEN overlay.Lyrics ELSE @,
     !.CoverImage = IF overlay.CoverImage # "" THEN overlay.CoverImage ELSE @,
     !.HasCover = IF overlay.CoverImage # "" THEN TRUE ELSE @,
     !.TrackNumber = IF overlay.TrackNumber > 0 THEN overlay.TrackNumber ELSE @,
     !.DiscNumber = IF overlay.DiscNumber > 0 THEN overlay.DiscNumber ELSE @,
     !.Year = IF overlay.Year > 0 THEN overlay.Year ELSE @]

\* Mutant of applyOrder: a new path goes to the front.
applyOrderFront(ord, trk, path) ==
  IF path \notin DOMAIN trk THEN <<path>> \o ord ELSE ord

\* ApplyMetadata's effect on the order sequence (line 164).
applyOrder(ord, trk, path) ==
  IF path \notin DOMAIN trk THEN Append(ord, path) ELSE ord

\* ApplyMetadata's result and stored record.
applyRecord(trk, path, overlay) ==
  IF path \notin DOMAIN trk THEN overlay ELSE applyOverlay(trk[path], overlay)

\* Mutant of updateOrder: the hasPath test is dropped.
updateOrderAlways(ord, path) == Append(ord, path)

\* UpdateAndReload's effect on the order sequence (lines 54-56).
updateOrder(ord, path) == IF ~hasPath(ord, path) THEN Append(ord, path) ELSE ord

\* saveID3v2 (lines 128-186): the tag of the file after id3Tag.Save().
ParseDataURL(cover) ==
  CASE cover = "data:image/png;base64,img" ->
         [ok |-> TRUE, mime |-> "image/png", pic |-> "img"]
    [] cover = "data:image/jpeg;base64,img" ->
         [ok |-> TRUE, mime |-> "image/jpeg", pic |-> "img"]
    [] OTHER -> [ok |-> FALSE, mime |-> "", pic |-> ""]

saveID3v2Tag(md, old) ==
  LET cover == ParseDataURL(md.CoverImage)
      keep == TrimSpace(md.CoverImage) # "" /\ cover.ok
  IN  [Title |-> md.Title, Artist |-> md.Artist, Album |-> md.Album,
       AlbumArtist |-> md.AlbumArtist, Track |-> md.TrackNumber,
       Disc |-> md.DiscNumber, Genre |-> md.Genre, Year |-> md.Year,
       Comment |-> md.Comment, Composer |-> md.Composer,
       Lyrics |-> IF TrimSpace(md.Lyrics) # "" THEN md.Lyrics ELSE "",
       Format |-> IF old.Format = "" THEN "ID3v2.4" ELSE old.Format,
       Picture |-> IF keep THEN cover.pic ELSE "",
       MIMEType |-> IF keep THEN cover.mime ELSE ""]

\* SaveMetadata(md) when the disk takes every write (io) or refuses them:
\* err, and the files and sidecar stores after it.
SaveMetadata(md, io) ==
  LET path == md.FilePath
      same == [err |-> TRUE, files |-> files, sidecars |-> sidecars,
               legacy |-> legacy, env |-> env]
      side == writeSidecar(md, Sidecars, io)
  IN  IF Ext(path) = ".mp3"
      THEN IF ~files[path].exists \/ ~io THEN same
           ELSE [err |-> FALSE,
                 files |-> [files EXCEPT ![path] =
                              [exists |-> TRUE, tagged |-> TRUE,
                               tag |-> saveID3v2Tag(md, files[path].tag)]],
                 sidecars |-> side.sidecars, legacy |-> side.legacy,
                 env |-> side.env]
      ELSE [err |-> side.err, files |-> files, sidecars |-> side.sidecars,
            legacy |-> side.legacy, env |-> side.env]

\* ------------------------------------------------------------------ inputs
\* The overlays handed to ApplyMetadata and the records handed to
\* UpdateAndReload.
Overlays(path) ==
  {[TrackMetadata(path) EXCEPT !.FileName = Base(path), !.Title = "Hint"]}

UpdateInputs ==
  {[TrackMetadata("c.wav") EXCEPT !.FileName = "c.wav", !.Title = "Edited"],
   [TrackMetadata("b.mp3") EXCEPT !.FileName = "b.mp3", !.Title = "Edited",
                                  !.Artist = "Bee"]}

\* ------------------------------------------------------------------ processes
NoCall == [op |-> "idle", paths |-> <<>>, persist |-> FALSE, path |-> "",
           md |-> TrackMetadata(""), base |-> TrackMetadata("")]

NoLoc == [unique |-> <<>>, results |-> <<>>,
          newTracks |-> <<>>, errs |-> <<>>, orderedNewTracks |-> <<>>,
          i |-> 1, snapshot |-> <<>>, refreshed |-> TrackMetadata(""),
          workers |-> <<>>, sent |-> 0, closed |-> FALSE, reads |-> <<>>,
          files |-> <<>>]

NoRet == [done |-> FALSE, Tracks |-> <<>>, Errors |-> <<>>, err |-> FALSE,
          md |-> TrackMetadata("")]

\* What the properties record about a call.  start: the order sequence when
\* it filtered its paths; added: the paths its merge appended; saveFailed:
\* SaveLibrary returned an error.
NoHist == [start |-> <<>>, added |-> <<>>, saveFailed |-> FALSE]

\* What the properties record about the calls started.  n: their number; by:
\* the process of the latest; alone: no other call was running when it
\* began; after: the process whose call began just before it, with no call
\* running, and has not begun another since (NoOne when there is none).
NoCalls == [n |-> 0, by |-> NoOne, alone |-> FALSE, after |-> NoOne]

\* The downloader's Client before Start.  mu: the holder of Client.mu;
\* running and cmd (non-nil): its fields; api: the spawned process ("none",
\* "starting", "ready", "exited", and "reaped" once cmd.Wait has returned);
\* waitCh: the buffer of the channel of Start; pending: the goroutines that
\* have returned from cmd.Wait and go for Client.mu; expired: readyCtx is
\* done.
NoClient == [mu |-> NoOne, running |-> FALSE, cmd |-> FALSE, api |-> "none",
             waitCh |-> <<>>, pending |-> 0, expired |-> FALSE]

\* The disk a previous run left: the stored path list, and which of its
\* audio files have since been deleted.
StoredAtStart == <<"a.flac", "c.wav">>
MissingAtStart == {{}, {"c.wav"}}

Init ==
  /\ tracks = <<>>
  /\ order = <<>>
  /\ mu = NoOne
  /\ stored = [NoStore EXCEPT !.kitty = ListFile(StoredAtStart)]
  /\ \E missing \in MissingAtStart :
       files = [p \in Paths |-> IF p \in missing THEN MissingFile
                                ELSE PresentFile(p)]
  /\ sidecars = [p \in Paths |-> <<>>]
  /\ legacy = [p \in Paths |-> <<>>]
  /\ env = DiskOK
  /\ pc = [p \in Procs |-> "idle"]
  /\ call = [p \in Procs |-> NoCall]
  /\ loc = [p \in Procs |-> NoLoc]
  /\ ret = [p \in Procs |-> NoRet]
  /\ hist = [p \in Procs |-> NoHist]
  /\ calls = NoCalls
  /\ client = NoClient

index == <<tracks, order>>
disk == <<files, sidecars, legacy, env>>

\* A call begins: the locals, the result and the history are fresh.
Begin(p, c, at) ==
  /\ pc[p] = "idle"
  /\ calls.n < MaxCalls
  /\ calls' = [n |-> calls.n + 1,
               by |-> p,
               alone |-> \A q \in Procs \ {p} : pc[q] = "idle",
               after |-> IF calls.by \notin {p, NoOne} /\ calls.alone
                         THEN calls.by ELSE NoOne]
  /\ call' = [call EXCEPT ![p] = c]
  /\ pc' = [pc EXCEPT ![p] = at]
  /\ loc' = [loc EXCEPT ![p] = NoLoc]
  /\ ret' = [ret EXCEPT ![p] = NoRet]
  /\ hist' = [hist EXCEPT ![p] = NoHist]
  /\ UNCHANGED <<client, index, mu, stored, disk>>

\* A call begins and returns an error at once.
Fail(p, c) ==
  /\ pc[p] = "idle"
  /\ calls.n < MaxCalls
  /\ calls' = [n |-> calls.n + 1,
               by |-> p,
               alone |-> \A q \in Procs \ {p} : pc[q] = "idle",
               after |-> IF calls.by \notin {p, NoOne} /\ calls.alone
                         THEN calls.by ELSE NoOne]
  /\ call' = [call EXCEPT ![p] = c]
  /\ loc' = [loc EXCEPT ![p] = NoLoc]
  /\ ret' = [ret EXCEPT ![p] = [NoRet EXCEPT !.done = TRUE, !.err = TRUE]]
  /\ hist' = [hist EXCEPT ![p] = NoHist]
  /\ UNCHANGED <<client, index, mu, stored, disk, pc>>

AddFiles(p) ==
  \E paths \in PathLists :
    Begin(p, [NoCall EXCEPT !.op = "AddFiles", !.paths = paths,
                            !.persist = TRUE], "filterNew")

\* Mutant of LoadStoredLibrary: the merge is followed by a save.
LoadStoredLibraryPersisting(p) ==
  IF LoadLibraryErr
  THEN Fail(p, [NoCall EXCEPT !.op = "LoadStoredLibrary"])
  ELSE Begin(p, [NoCall EXCEPT !.op = "LoadStoredLibrary",
                               !.paths = LoadLibrary, !.persist = TRUE],
             "filterNew")

\* Lines 31-37: the error of LoadLibrary is returned with an empty result.
LoadStoredLibrary(p) ==
  IF LoadLibraryErr
  THEN Fail(p, [NoCall EXCEPT !.op = "LoadStoredLibrary"])
  ELSE Begin(p, [NoCall EXCEPT !.op = "LoadStoredLibrary",
                               !.paths = LoadLibrary], "filterNew")

ApplyMetadata(p) ==
  \E path \in Paths : \E overlay \in Overlays(path) :
    Begin(p, [NoCall EXCEPT !.op = "ApplyMetadata", !.path = path,
                            !.md = overlay], "apply")

UpdateAndReload(p) ==
  \E md \in UpdateInputs :
    Begin(p, [NoCall EXCEPT !.op = "UpdateAndReload", !.md = md],
          "SaveMetadata")

\* Line 132: m.mu.Lock() at the head of the merge.  The other critical
\* sections (filterNew, snapshot, ApplyMetadata and the tail of
\* UpdateAndReload) lock, run and unlock within one step, which the mutex
\* being free enables.
Lock(p) ==
  /\ pc[p] = "merge"
  /\ mu = NoOne
  /\ mu' = p
  /\ pc' = [pc EXCEPT ![p] = "mergeLocked"]
  /\ UNCHANGED <<client, index, stored, disk, call, loc, ret, hist, calls>>

\* ------------------------------------------------------------------ loadAndMerge
\* Lines 65-68: filterNew under the mutex, then the fast path or the fan-out.
FilterNew(p) ==
  /\ pc[p] = "filterNew"
  /\ mu = NoOne
  /\ LET unique == filterNew(call[p].paths, tracks)
     IN  /\ loc' = [loc EXCEPT ![p].unique = unique]
         /\ pc' = [pc EXCEPT ![p] = IF Len(unique) = 0 THEN "snapshot"
                                    ELSE "fanout"]
  /\ hist' = [hist EXCEPT ![p].start = order]
  /\ UNCHANGED <<client, index, mu, stored, disk, call, ret, calls>>

\* The paths whose result is in the results channel.
Read(p) == {loc[p].results[k].path : k \in 1..Len(loc[p].results)}

\* Lines 85-102: jobs is unbuffered, so the send of unique[i] at line 101 is
\* its receipt by a worker at line 88, after the sends before it and while
\* fewer than workerCount of those are still being read; the worker runs
\* LoadMetadata(path) and sends its result.
Worker(p) ==
  /\ pc[p] = "fanout"
  /\ \E i \in 1..Len(loc[p].unique) :
       LET path == loc[p].unique[i]
           r == LoadMetadata(path)
           after == LoadMetadataDisk(path)
       IN  /\ path \notin Read(p)
           /\ Cardinality({j \in 1..(i - 1) : loc[p].unique[j] \notin Read(p)})
                < workerCount(loc[p].unique)
           /\ loc' = [loc EXCEPT
                        ![p].results =
                           Append(@, [track |-> r.md, err |-> r.err,
                                      path |-> path])]
           /\ sidecars' = after.sidecars
           /\ legacy' = after.legacy
           /\ env' = after.env
  /\ UNCHANGED <<client, index, mu, stored, files, pc, call, ret, hist, calls>>

\* Mutant of collectErrs: read errors are dropped.
collectErrsSilent(results) == <<>>

\* Lines 112-118 over the closed results channel.
RECURSIVE collectErrs(_)
collectErrs(results) ==
  IF results = <<>> THEN <<>>
  ELSE IF Head(results).err
       THEN <<ErrorEntry(Head(results).path, "open")>> \o collectErrs(Tail(results))
       ELSE collectErrs(Tail(results))

RECURSIVE collectTracks(_)
collectTracks(results) ==
  IF results = <<>> THEN <<>>
  ELSE IF Head(results).err THEN collectTracks(Tail(results))
       ELSE <<Head(results).track>> \o collectTracks(Tail(results))

\* Lines 103-129: every job is sent, every worker has returned (wg.Wait);
\* the results are drained and put in the order of unique.
Collect(p) ==
  /\ pc[p] = "fanout"
  /\ Len(loc[p].results) = Len(loc[p].unique)
  /\ LET newTracks == collectTracks(loc[p].results)
         ordered == orderedNewTracks(loc[p].unique, newTracks)
     IN  /\ loc' = [loc EXCEPT
                      ![p].results = <<>>,
                      ![p].newTracks = newTracks,
                      ![p].errs = collectErrs(loc[p].results),
                      ![p].orderedNewTracks = ordered]
         /\ pc' = [pc EXCEPT ![p] = IF Len(ordered) > 0 THEN "merge"
                                    ELSE "snapshot"]
  /\ UNCHANGED <<client, index, mu, stored, disk, call, ret, hist, calls>>

\* Mutant of MergeTrack: the mutex is released after every round.
MergeTrackUnlocking(p) ==
  /\ pc[p] = "mergeLocked"
  /\ loc[p].i <= Len(loc[p].orderedNewTracks)
  /\ LET t == loc[p].orderedNewTracks[loc[p].i]
     IN  /\ order' = mergeOrder(order, tracks, t)
         /\ tracks' = putTrack(tracks, t.FilePath, t)
         /\ hist' = [hist EXCEPT ![p].added =
                       IF t.FilePath \notin DOMAIN tracks
                       THEN Append(@, t.FilePath) ELSE @]
  /\ loc' = [loc EXCEPT ![p].i = @ + 1]
  /\ mu' = NoOne
  /\ pc' = [pc EXCEPT ![p] = "merge"]
  /\ UNCHANGED <<client, stored, disk, call, ret, calls>>

\* Lines 133-138: one round of the merge loop, inside the critical section.
MergeTrack(p) ==
  /\ pc[p] = "mergeLocked"
  /\ loc[p].i <= Len(loc[p].orderedNewTracks)
  /\ LET t == loc[p].orderedNewTracks[loc[p].i]
     IN  /\ order' = mergeOrder(order, tracks, t)
         /\ tracks' = putTrack(tracks, t.FilePath, t)
         /\ hist' = [hist EXCEPT ![p].added =
                       IF t.FilePath \notin DOMAIN tracks
                       THEN Append(@, t.FilePath) ELSE @]
  /\ loc' = [loc EXCEPT ![p].i = @ + 1]
  /\ UNCHANGED <<client, mu, stored, disk, pc, call, ret, calls>>

\* Lines 139-142: the snapshot for the log line, then Unlock.
MergeUnlock(p) ==
  /\ pc[p] = "mergeLocked"
  /\ loc[p].i > Len(loc[p].orderedNewTracks)
  /\ loc' = [loc EXCEPT ![p].snapshot = snapshotLocked(order, tracks),
                        ![p].newTracks = <<>>]
  /\ mu' = NoOne
  /\ pc' = [pc EXCEPT ![p] = IF call[p].persist THEN "SaveLibrary"
                             ELSE "snapshot"]
  /\ UNCHANGED <<client, index, stored, disk, call, ret, hist, calls>>

\* Mutant of Persist: only the paths the batch appended are written.
PersistAdded(p) ==
  /\ pc[p] = "SaveLibrary"
  /\ \E io \in BOOLEAN :
       IF io
       THEN /\ stored' = SaveLibrary(hist[p].added)
            /\ UNCHANGED <<loc, hist>>
       ELSE /\ loc' = [loc EXCEPT ![p].errs = Append(@, SaveErrorEntry)]
            /\ hist' = [hist EXCEPT ![p].saveFailed = TRUE]
            /\ UNCHANGED stored
  /\ pc' = [pc EXCEPT ![p] = "snapshot"]
  /\ UNCHANGED <<client, index, mu, disk, call, ret, calls>>

\* Mutant of Persist: a failed write is not reported.
PersistSilent(p) ==
  /\ pc[p] = "SaveLibrary"
  /\ \E io \in BOOLEAN :
       IF io
       THEN /\ stored' = SaveLibrary(order)
            /\ UNCHANGED hist
       ELSE /\ hist' = [hist EXCEPT ![p].saveFailed = TRUE]
            /\ UNCHANGED stored
  /\ pc' = [pc EXCEPT ![p] = "snapshot"]
  /\ UNCHANGED <<client, index, mu, disk, call, loc, ret, calls>>

\* Lines 143-145: storage.SaveLibrary(m.order), after Unlock; the write
\* succeeds or fails.
Persist(p) ==
  /\ pc[p] = "SaveLibrary"
  /\ \E io \in BOOLEAN :
       IF io
       THEN /\ stored' = SaveLibrary(order)
            /\ UNCHANGED <<loc, hist>>
       ELSE /\ loc' = [loc EXCEPT ![p].errs = Append(@, SaveErrorEntry)]
            /\ hist' = [hist EXCEPT ![p].saveFailed = TRUE]
            /\ UNCHANGED stored
  /\ pc' = [pc EXCEPT ![p] = "snapshot"]
  /\ UNCHANGED <<client, index, mu, disk, call, ret, calls>>

\* Lines 67 and 151-154: m.snapshot() and the return.
Snapshot(p) ==
  /\ pc[p] = "snapshot"
  /\ mu = NoOne
  /\ ret' = [ret EXCEPT ![p] =
               [NoRet EXCEPT !.done = TRUE,
                             !.Tracks = snapshotLocked(order, tracks),
                             !.Errors = loc[p].errs]]
  /\ loc' = [loc EXCEPT ![p].snapshot = <<>>]
  /\ pc' = [pc EXCEPT ![p] = "idle"]
  /\ UNCHANGED <<client, index, mu, stored, disk, call, hist, calls>>

\* ------------------------------------------------------------------ ApplyMetadata
Apply(p) ==
  /\ pc[p] = "apply"
  /\ mu = NoOne
  /\ LET result == applyRecord(tracks, call[p].path, call[p].md)
     IN  /\ tracks' = putTrack(tracks, call[p].path, result)
         /\ order' = applyOrder(order, tracks, call[p].path)
         /\ ret' = [ret EXCEPT ![p] = [NoRet EXCEPT !.done = TRUE, !.md = result]]
  /\ pc' = [pc EXCEPT ![p] = "idle"]
  /\ UNCHANGED <<client, mu, stored, disk, call, loc, hist, calls>>

\* ------------------------------------------------------------------ UpdateAndReload
\* Lines 44-46.
Save(p) ==
  /\ pc[p] = "SaveMetadata"
  /\ \E io \in BOOLEAN :
       LET r == SaveMetadata(call[p].md, io)
       IN  /\ files' = r.files
           /\ sidecars' = r.sidecars
           /\ legacy' = r.legacy
           /\ env' = r.env
           /\ IF r.err
              THEN /\ ret' = [ret EXCEPT ![p] =
                                [NoRet EXCEPT !.done = TRUE, !.err = TRUE]]
                   /\ pc' = [pc EXCEPT ![p] = "idle"]
              ELSE /\ pc' = [pc EXCEPT ![p] = "LoadMetadata"]
                   /\ UNCHANGED ret
  /\ UNCHANGED <<client, index, mu, stored, call, loc, hist, calls>>

\* Lines 47-50.
Reload(p) ==
  /\ pc[p] = "LoadMetadata"
  /\ LET r == LoadMetadata(call[p].md.FilePath)
         after == LoadMetadataDisk(call[p].md.FilePath)
     IN  /\ sidecars' = after.sidecars
         /\ legacy' = after.legacy
         /\ env' = after.env
         /\ IF r.err
            THEN /\ ret' = [ret EXCEPT ![p] =
                              [NoRet EXCEPT !.done = TRUE, !.err = TRUE]]
                 /\ pc' = [pc EXCEPT ![p] = "idle"]
                 /\ UNCHANGED loc
            ELSE /\ loc' = [loc EXCEPT ![p].refreshed = r.md]
                 /\ pc' = [pc EXCEPT ![p] = "update"]
                 /\ UNCHANGED ret
  /\ UNCHANGED <<client, index, mu, stored, files, call, hist, calls>>

\* Lines 52-61.
Update(p) ==
  /\ pc[p] = "update"
  /\ mu = NoOne
  /\ LET refreshed == loc[p].refreshed
     IN  /\ tracks' = putTrack(tracks, refreshed.FilePath, refreshed)
         /\ order' = updateOrder(order, refreshed.FilePath)
         /\ ret' = [ret EXCEPT ![p] =
                      [NoRet EXCEPT !.done = TRUE, !.md = refreshed]]
  /\ pc' = [pc EXCEPT ![p] = "idle"]
  /\ UNCHANGED <<client, mu, stored, disk, call, loc, hist, calls>>

\* ------------------------------------------------------------------ specification
Step(p) ==
  \/ AddFiles(p)
  \/ LoadStoredLibrary(p)
  \/ ApplyMetadata(p)
  \/ UpdateAndReload(p)
  \/ Lock(p)
  \/ FilterNew(p)
  \/ Worker(p)
  \/ Collect(p)
  \/ MergeTrack(p)
  \/ MergeUnlock(p)
  \/ Persist(p)
  \/ Snapshot(p)
  \/ Apply(p)
  \/ Save(p)
  \/ Reload(p)
  \/ Update(p)

Next == \E p \in Procs : Step(p)

Spec == Init /\ [][Next]_vars

\* The same calls, one at a time: a call begins only when no other runs.
SeqNext == \E p \in Procs : (\A q \in Procs \ {p} : pc[q] = "idle") /\ Step(p)

SeqSpec == Init /\ [][SeqNext]_vars

\* ------------------------------------------------------------------ mergeMetadata
\* The fields mergeMetadata and ApplyMetadata overlay, by type.
StringFields == {"Title", "Artist", "Album", "AlbumArtist", "Genre", "Comment",
                 "Composer", "Lyrics", "Format"}
NumberFields == {"TrackNumber", "DiscNumber", "Year", "Bitrate", "SampleRate"}

\* Records to merge.  Bases: the zero record, a record with every field
\* set, and a record with a title and no artist.
FullRecord(path, str, num, cover) ==
  [FilePath |-> path, FileName |-> Base(path), Title |-> str, Artist |-> str,
   Album |-> str, AlbumArtist |-> str, TrackNumber |-> num, DiscNumber |-> num,
   Genre |-> str, Year |-> num, Comment |-> str, Composer |-> str,
   Lyrics |-> str, HasCover |-> TRUE, CoverImage |-> cover, Format |-> str,
   Bitrate |-> num, SampleRate |-> num]

MergeBases ==
  {TrackMetadata("a.flac"),
   FullRecord("a.flac", "X", 3, "data:image/png;base64,old"),
   [TrackMetadata("a.flac") EXCEPT !.FileName = "a.flac", !.Title = "X"]}

\* Overlays: the zero record, records with one field set (a blank or a
\* value for a string, a negative or a positive number), every combination
\* of has-cover and cover image, and a record with every field set.
MergeOverlays ==
  LET zero == [TrackMetadata("a.flac") EXCEPT !.FileName = "a.flac"]
  IN  {TrackMetadata(""), FullRecord("a.flac", "Y", 7, "data:image/png;base64,new")}
        \cup {[zero EXCEPT ![f] = v] : f \in StringFields, v \in {" ", "Y"}}
        \cup {[zero EXCEPT ![f] = v] : f \in NumberFields, v \in {-1, 7}}
        \cup {[zero EXCEPT !.HasCover = h, !.CoverImage = c] :
                h \in BOOLEAN, c \in {"", " ", "data:image/png;base64,new"}}

\* A process is about to call mergeMetadata(base, override).
MergeInit ==
  /\ tracks = <<>>
  /\ order = <<>>
  /\ mu = NoOne
  /\ stored = NoStore
  /\ files = [p \in Paths |-> PresentFile(p)]
  /\ sidecars = [p \in Paths |-> <<>>]
  /\ legacy = [p \in Paths |-> <<>>]
  /\ env = DiskOK
  /\ \E base \in MergeBases : \E override \in MergeOverlays :
       call = [p \in Procs |->
                 IF p = "g1"
                 THEN [NoCall EXCEPT !.op = "mergeMetadata", !.base = base,
                                     !.md = override]
                 ELSE NoCall]
  /\ pc = [p \in Procs |-> IF p = "g1" THEN "mergeMetadata" ELSE "idle"]
  /\ loc = [p \in Procs |-> NoLoc]
  /\ ret = [p \in Procs |-> NoRet]
  /\ hist = [p \in Procs |-> NoHist]
  /\ calls = NoCalls
  /\ client = NoClient

\* mergeMetadata returns.
Merge(p) ==
  /\ pc[p] = "mergeMetadata"
  /\ ret' = [ret EXCEPT ![p] =
               [NoRet EXCEPT !.done = TRUE,
                             !.md = mergeMetadata(call[p].base, call[p].md)]]
  /\ pc' = [pc EXCEPT ![p] = "idle"]
  /\ UNCHANGED <<client, index, mu, stored, disk, call, loc, hist, calls>>

MergeNext == \E p \in Procs : Merge(p)

MergeSpec == MergeInit /\ [][MergeNext]_vars

\* A process is about to run ApplyMetadata(path, overlay) on an Index that
\* holds a record for path.
ApplyInit ==
  /\ \E base \in MergeBases :
       tracks = [path \in {"a.flac"} |-> base]
  /\ order = <<"a.flac">>
  /\ mu = NoOne
  /\ stored = NoStore
  /\ files = [p \in Paths |-> PresentFile(p)]
  /\ sidecars = [p \in Paths |-> <<>>]
  /\ legacy = [p \in Paths |-> <<>>]
  /\ env = DiskOK
  /\ \E overlay \in MergeOverlays :
       call = [p \in Procs |->
                 IF p = "g1"
                 THEN [NoCall EXCEPT !.op = "ApplyMetadata", !.path = "a.flac",
                                     !.md = overlay]
                 ELSE NoCall]
  /\ pc = [p \in Procs |-> IF p = "g1" THEN "apply" ELSE "idle"]
  /\ loc = [p \in Procs |-> NoLoc]
  /\ ret = [p \in Procs |-> NoRet]
  /\ hist = [p \in Procs |-> NoHist]
  /\ calls = NoCalls
  /\ client = NoClient

ApplyNext == \E p \in Procs : Apply(p)

ApplySpec == ApplyInit /\ [][ApplyNext]_vars

\* ------------------------------------------------------------------ LoadMetadata
\* Files to read: one whose tag has every field set, one whose tag is empty,
\* and one that tag.ReadFrom cannot parse.
LoadFiles ==
  {[exists |-> TRUE, tagged |-> TRUE,
    tag |-> [Title |-> "T", Artist |-> "T", Album |-> "T", AlbumArtist |-> "T",
             Track |-> 2, Disc |-> 2, Genre |-> "T", Year |-> 2,
             Comment |-> "T", Composer |-> "T", Lyrics |-> "T",
             Format |-> "FLAC", Picture |-> "img", MIMEType |-> "image/png"]],
   [exists |-> TRUE, tagged |-> TRUE, tag |-> RawTag("", "", "")],
   [exists |-> TRUE, tagged |-> FALSE, tag |-> RawTag("", "", "")]}

\* A process is about to call LoadMetadata("a.flac"); the file has a sidecar
\* at the hashed location or at the legacy one.
LoadInit ==
  /\ tracks = <<>>
  /\ order = <<>>
  /\ mu = NoOne
  /\ stored = NoStore
  /\ \E file \in LoadFiles :
       files = [p \in Paths |-> IF p = "a.flac" THEN file ELSE PresentFile(p)]
  /\ \E side \in MergeOverlays : \E hashed \in BOOLEAN :
       /\ sidecars = [p \in Paths |-> IF p = "a.flac" /\ hashed
                                      THEN <<Marshal(side)>> ELSE <<>>]
       /\ legacy = [p \in Paths |-> IF p = "a.flac" /\ ~hashed
                                    THEN <<Marshal(side)>> ELSE <<>>]
  /\ env = DiskOK
  /\ call = [p \in Procs |->
               IF p = "g1"
               THEN [NoCall EXCEPT !.op = "LoadMetadata", !.path = "a.flac"]
               ELSE NoCall]
  /\ pc = [p \in Procs |-> IF p = "g1" THEN "readTrack" ELSE "idle"]
  /\ loc = [p \in Procs |-> NoLoc]
  /\ ret = [p \in Procs |-> NoRet]
  /\ hist = [p \in Procs |-> NoHist]
  /\ calls = NoCalls
  /\ client = NoClient

\* LoadMetadata(path) returns.
Load(p) ==
  /\ pc[p] = "readTrack"
  /\ LET r == LoadMetadata(call[p].path)
         after == LoadMetadataDisk(call[p].path)
     IN  /\ ret' = [ret EXCEPT ![p] =
                      [NoRet EXCEPT !.done = TRUE, !.err = r.err, !.md = r.md]]
         /\ sidecars' = after.sidecars
         /\ legacy' = after.legacy
         /\ env' = after.env
  /\ pc' = [pc EXCEPT ![p] = "idle"]
  /\ UNCHANGED <<client, index, mu, stored, files, call, loc, hist, calls>>

LoadNext == \E p \in Procs : Load(p)

LoadSpec == LoadInit /\ [][LoadNext]_vars

\* ------------------------------------------------------------------ sidecar cache
\* The records handed to writeSidecar for "a.flac": every field set, no
\* field set and another file's name, and a title that is not valid UTF-8.
WriteRecords ==
  {FullRecord("a.flac", "Y", 7, "data:image/png;base64,new"),
   [TrackMetadata("a.flac") EXCEPT !.FileName = "other.flac"],
   [TrackMetadata("a.flac") EXCEPT !.FileName = "a.flac", !.Title = "<ff>"]}

\* The record an earlier run of the program saved for path.
Saved(path, str) ==
  Marshal([TrackMetadata(path) EXCEPT !.FileName = Base(path), !.Title = str])

\* The sidecars earlier runs left: none, legacy ones only, hashed ones only,
\* and a hashed one for one file with a legacy one for both.
SidecarsAtStart ==
  LET none == [p \in Paths |-> <<>>]
      both(str) == [p \in Paths |->
                      IF p \in {"a.flac", "c.wav"} THEN <<Saved(p, str)>>
                      ELSE <<>>]
  IN  {[sidecars |-> none, legacy |-> none],
       [sidecars |-> none, legacy |-> both("Legacy")],
       [sidecars |-> both("Hashed"), legacy |-> none],
       [sidecars |-> [none EXCEPT !["c.wav"] = <<Saved("c.wav", "Hashed")>>],
        legacy |-> both("Legacy")]}

\* The machines: everything works, the sidecar directory does not exist yet,
\* it cannot be created or written, there is no config directory, and the
\* directories of the audio files are read-only.
Machines ==
  {DiskOK,
   [DiskOK EXCEPT !.dir = "missing"],
   [DiskOK EXCEPT !.dir = "blocked"],
   [DiskOK EXCEPT !.config = FALSE],
   [DiskOK EXCEPT !.legacyOK = FALSE],
   [DiskOK EXCEPT !.dir = "blocked", !.legacyOK = FALSE]}

\* No call is running; the audio file a.flac is gone.
SidecarInit ==
  /\ tracks = <<>>
  /\ order = <<>>
  /\ mu = NoOne
  /\ stored = NoStore
  /\ files = [p \in Paths |-> IF p = "a.flac" THEN MissingFile
                              ELSE PresentFile(p)]
  /\ \E d \in SidecarsAtStart : \E m \in Machines :
       /\ m.dir = "missing" => \A p \in Paths : d.sidecars[p] = <<>>
       /\ sidecars = d.sidecars
       /\ legacy = d.legacy
       /\ env = m
  /\ pc = [p \in Procs |-> "idle"]
  /\ call = [p \in Procs |-> NoCall]
  /\ loc = [p \in Procs |-> NoLoc]
  /\ ret = [p \in Procs |-> NoRet]
  /\ hist = [p \in Procs |-> NoHist]
  /\ calls = NoCalls
  /\ client = NoClient

\* The calls into the sidecar cache.
WriteSidecarCall(p) ==
  \E md \in WriteRecords :
    Begin(p, [NoCall EXCEPT !.op = "writeSidecar", !.path = md.FilePath,
                            !.md = md], "writeSidecar")

ReadSidecarCall(p) ==
  \E path \in {"a.flac", "c.wav"} :
    Begin(p, [NoCall EXCEPT !.op = "readSidecar", !.path = path],
          "readSidecar")

ClearSidecarCacheCall(p) ==
  Begin(p, [NoCall EXCEPT !.op = "ClearSidecarCache"], "ClearSidecarCache")

\* Lines 301-320: writeSidecar(md) as one step.
WriteSidecar(p) ==
  /\ pc[p] = "writeSidecar"
  /\ LET r == writeSidecar(call[p].md, Sidecars, TRUE)
     IN  /\ sidecars' = r.sidecars
         /\ legacy' = r.legacy
         /\ env' = r.env
         /\ ret' = [ret EXCEPT ![p] = [NoRet EXCEPT !.done = TRUE,
                                                    !.err = r.err]]
  /\ pc' = [pc EXCEPT ![p] = "idle"]
  /\ UNCHANGED <<client, index, mu, stored, files, call, loc, hist, calls>>

\* Lines 273-291: the reads and the decoding.  Without a document the call
\* returns the error; with the legacy path as primary it returns the record.
ReadSidecarFiles(p) ==
  /\ pc[p] = "readSidecar"
  /\ LET r == readSidecar(call[p].path)
     IN  IF ~r.ok
         THEN /\ ret' = [ret EXCEPT ![p] = [NoRet EXCEPT !.done = TRUE,
                                                         !.err = TRUE]]
              /\ pc' = [pc EXCEPT ![p] = "idle"]
              /\ UNCHANGED loc
         ELSE IF ~sidecarDirOK
              THEN /\ ret' = [ret EXCEPT ![p] = [NoRet EXCEPT !.done = TRUE,
                                                              !.md = r.md]]
                   /\ pc' = [pc EXCEPT ![p] = "idle"]
                   /\ UNCHANGED loc
              ELSE /\ loc' = [loc EXCEPT ![p].refreshed = r.md]
                   /\ pc' = [pc EXCEPT ![p] = "Stat"]
                   /\ UNCHANGED ret
  /\ UNCHANGED <<client, index, mu, stored, disk, call, hist, calls>>

\* Lines 293-294: os.Stat(primary).
StatPrimary(p) ==
  /\ pc[p] = "Stat"
  /\ IF PrimaryNotExist(call[p].path)
     THEN /\ pc' = [pc EXCEPT ![p] = "migrate"]
          /\ UNCHANGED ret
     ELSE /\ ret' = [ret EXCEPT ![p] = [NoRet EXCEPT !.done = TRUE,
                                                     !.md = loc[p].refreshed]]
          /\ pc' = [pc EXCEPT ![p] = "idle"]
  /\ UNCHANGED <<client, index, mu, stored, disk, call, loc, hist, calls>>

\* Lines 295 and 298: _ = writeSidecar(md), and the return.
Migrate(p) ==
  /\ pc[p] = "migrate"
  /\ LET r == writeSidecar(loc[p].refreshed, Sidecars, TRUE)
     IN  /\ sidecars' = r.sidecars
         /\ legacy' = r.legacy
         /\ env' = r.env
  /\ ret' = [ret EXCEPT ![p] = [NoRet EXCEPT !.done = TRUE,
                                             !.md = loc[p].refreshed]]
  /\ pc' = [pc EXCEPT ![p] = "idle"]
  /\ UNCHANGED <<client, index, mu, stored, files, call, loc, hist, calls>>

\* Lines 322-328: nothing without a config directory, else os.RemoveAll(dir),
\* which fails on a directory that cannot be written.
ClearSidecarCache(p) ==
  /\ pc[p] = "ClearSidecarCache"
  /\ IF ~sidecarDirOK
     THEN /\ ret' = [ret EXCEPT ![p] = [NoRet EXCEPT !.done = TRUE]]
          /\ UNCHANGED <<sidecars, env>>
     ELSE IF env.dir = "blocked"
          THEN /\ ret' = [ret EXCEPT ![p] = [NoRet EXCEPT !.done = TRUE,
                                                          !.err = TRUE]]
               /\ UNCHANGED <<sidecars, env>>
          ELSE /\ ret' = [ret EXCEPT ![p] = [NoRet EXCEPT !.done = TRUE]]
               /\ sidecars' = [path \in Paths |-> <<>>]
               /\ env' = [env EXCEPT !.dir = "missing"]
  /\ pc' = [pc EXCEPT ![p] = "idle"]
  /\ UNCHANGED <<client, index, mu, stored, files, legacy, call, loc, hist, calls>>

SidecarNext ==
  \E p \in Procs :
    \/ WriteSidecarCall(p)
    \/ ReadSidecarCall(p)
    \/ ClearSidecarCacheCall(p)
    \/ WriteSidecar(p)
    \/ ReadSidecarFiles(p)
    \/ StatPrimary(p)
    \/ Migrate(p)
    \/ ClearSidecarCache(p)

SidecarSpec == SidecarInit /\ [][SidecarNext]_vars

\* ------------------------------------------------------------------ reading a track
\* The documents a sidecar file may hold: none, a saved record, or bytes that
\* are not JSON.
SidecarDocs == {<<>>, <<Corrupt>>} \cup {<<Marshal(side)>> : side \in MergeOverlays}

\* A process is about to call LoadMetadata(path); the file is tagged, cannot
\* be parsed, or cannot be opened, and its sidecar file is absent, unreadable
\* or holds a record, at the hashed location or at the legacy one.
ReadInit ==
  /\ tracks = <<>>
  /\ order = <<>>
  /\ mu = NoOne
  /\ stored = NoStore
  /\ \E path \in Paths :
       /\ \E file \in LoadFiles \cup {MissingFile} :
            files = [p \in Paths |-> IF p = path THEN file ELSE PresentFile(p)]
       /\ \E doc \in SidecarDocs : \E hashed \in BOOLEAN :
            /\ sidecars = [p \in Paths |-> IF p = path /\ hashed THEN doc
                                           ELSE <<>>]
            /\ legacy = [p \in Paths |-> IF p = path /\ ~hashed THEN doc
                                         ELSE <<>>]
       /\ call = [p \in Procs |->
                    IF p = "g1"
                    THEN [NoCall EXCEPT !.op = "LoadMetadata", !.path = path]
                    ELSE NoCall]
  /\ env = DiskOK
  /\ pc = [p \in Procs |-> IF p = "g1" THEN "readTrack" ELSE "idle"]
  /\ loc = [p \in Procs |-> NoLoc]
  /\ ret = [p \in Procs |-> NoRet]
  /\ hist = [p \in Procs |-> NoHist]
  /\ calls = NoCalls
  /\ client = NoClient

ReadNext == \E p \in Procs : Load(p)

ReadSpec == ReadInit /\ [][ReadNext]_vars

\* ------------------------------------------------------------------ the path-list store
\* The path-list files a previous run may have left under the two names.
StoresAtStart ==
  {[kitty |-> k, metago |-> m] :
     k \in {NoFile, ListFile(<<"a.flac">>), BadFile("unreadable"),
            BadFile("corrupt")},
     m \in {NoFile, ListFile(<<"b.mp3", "c.wav">>), BadFile("corrupt")}}

StoreInit ==
  /\ tracks = <<>>
  /\ order = <<>>
  /\ mu = NoOne
  /\ stored \in StoresAtStart
  /\ files = [p \in Paths |-> PresentFile(p)]
  /\ sidecars = [p \in Paths |-> <<>>]
  /\ legacy = [p \in Paths |-> <<>>]
  /\ env = DiskOK
  /\ pc = [p \in Procs |-> "idle"]
  /\ call = [p \in Procs |-> NoCall]
  /\ loc = [p \in Procs |-> NoLoc]
  /\ ret = [p \in Procs |-> NoRet]
  /\ hist = [p \in Procs |-> NoHist]
  /\ calls = NoCalls
  /\ client = NoClient

\* LoadStoredLibrary and AddFiles, one call at a time.
StoreNext ==
  \E p \in Procs :
    /\ \A q \in Procs \ {p} : pc[q] = "idle"
    /\ \/ LoadStoredLibrary(p)
       \/ AddFiles(p)
       \/ Lock(p)
       \/ FilterNew(p)
       \/ Worker(p)
       \/ Collect(p)
       \/ MergeTrack(p)
       \/ MergeUnlock(p)
       \/ Persist(p)
       \/ Snapshot(p)

StoreSpec == StoreInit /\ [][StoreNext]_vars

\* ------------------------------------------------------------------ the read fan-out
\* Lines 70-118 goroutine by goroutine.  The locals of the call hold the
\* channels and the workers: workers[w] is the state of worker w ("recv" at
\* the range over jobs, "load" in LoadMetadata, "send" at the send of its
\* result, "done" after wg.Done), sent is the number of jobs the dispatch
\* loop has handed over, closed says that jobs is closed, results is the
\* buffer of the results channel, and reads lists the LoadMetadata calls.

\* Mutant of resultsCap: the results channel has no buffer.
resultsCapUnbuffered(unique) == 0

\* Line 82: make(chan res, len(unique)).
resultsCap(unique) == Len(unique)

\* The worker at the head of its loop.
IdleWorker == [st |-> "recv", job |-> "", res |-> <<>>]

\* The lists of new paths of the batches, and the files of the disk.
FanLists ==
  {<<"c.wav">>, <<"a.flac", "b.mp3">>, <<"c.wav", "b.mp3">>,
   <<"a.flac", "b.mp3", "c.wav">>}

\* A batch has filtered its paths and fixed its worker count, which is any
\* number from 1 to the number of paths.
FanInit ==
  /\ tracks = <<>>
  /\ order = <<>>
  /\ mu = NoOne
  /\ stored = NoStore
  /\ \E missing \in MissingAtStart :
       files = [p \in Paths |-> IF p \in missing THEN MissingFile
                                ELSE PresentFile(p)]
  /\ sidecars = [p \in Paths |-> <<>>]
  /\ legacy = [p \in Paths |-> <<>>]
  /\ env = DiskOK
  /\ \E unique \in FanLists : \E count \in 1..Len(unique) :
       /\ call = [p \in Procs |->
                    IF p = "g1"
                    THEN [NoCall EXCEPT !.op = "AddFiles", !.paths = unique,
                                        !.persist = TRUE]
                    ELSE NoCall]
       /\ loc = [p \in Procs |->
                   IF p = "g1"
                   THEN [NoLoc EXCEPT !.unique = unique,
                                      !.workers = [w \in 1..count |-> IdleWorker]]
                   ELSE NoLoc]
  /\ pc = [p \in Procs |-> IF p = "g1" THEN "dispatch" ELSE "idle"]
  /\ ret = [p \in Procs |-> NoRet]
  /\ hist = [p \in Procs |-> NoHist]
  /\ calls = NoCalls
  /\ client = NoClient

\* Lines 101 and 89: jobs is unbuffered, so the send of the next path is its
\* receipt by a worker that waits at the range.
SendJob(p, w) ==
  /\ pc[p] = "dispatch"
  /\ loc[p].sent < Len(loc[p].unique)
  /\ loc[p].workers[w].st = "recv"
  /\ loc' = [loc EXCEPT
               ![p].sent = @ + 1,
               ![p].workers[w] =
                  [st |-> "load", job |-> loc[p].unique[loc[p].sent + 1],
                   res |-> <<>>]]
  /\ UNCHANGED <<client, index, mu, stored, disk, pc, call, ret, hist, calls>>

\* Line 90: the worker's LoadMetadata(path) returns.
LoadJob(p, w) ==
  /\ pc[p] \in {"dispatch", "wait"}
  /\ loc[p].workers[w].st = "load"
  /\ LET path == loc[p].workers[w].job
         r == LoadMetadata(path)
         after == LoadMetadataDisk(path)
     IN  /\ loc' = [loc EXCEPT
                      ![p].workers[w].st = "send",
                      ![p].workers[w].res =
                         <<[track |-> r.md, err |-> r.err, path |-> path]>>,
                      ![p].reads = Append(@, [by |-> w, path |-> path])]
         /\ sidecars' = after.sidecars
         /\ legacy' = after.legacy
         /\ env' = after.env
  /\ UNCHANGED <<client, index, mu, stored, files, pc, call, ret, hist, calls>>

\* Lines 92 and 95: the send on results, which waits while the buffer is
\* full; the worker is back at the range over jobs.
SendResult(p, w) ==
  /\ pc[p] \in {"dispatch", "wait"}
  /\ loc[p].workers[w].st = "send"
  /\ Len(loc[p].results) < resultsCap(loc[p].unique)
  /\ loc' = [loc EXCEPT
               ![p].results = Append(@, loc[p].workers[w].res[1]),
               ![p].workers[w] = IdleWorker]
  /\ UNCHANGED <<client, index, mu, stored, disk, pc, call, ret, hist, calls>>

\* Line 103: close(jobs) after the last send.
CloseJobs(p) ==
  /\ pc[p] = "dispatch"
  /\ loc[p].sent = Len(loc[p].unique)
  /\ loc' = [loc EXCEPT ![p].closed = TRUE]
  /\ pc' = [pc EXCEPT ![p] = "wait"]
  /\ UNCHANGED <<client, index, mu, stored, disk, call, ret, hist, calls>>

\* Lines 88-89: the range over the closed jobs channel ends and the deferred
\* wg.Done() runs.
WorkerExit(p, w) ==
  /\ pc[p] = "wait"
  /\ loc[p].closed
  /\ loc[p].workers[w].st = "recv"
  /\ loc' = [loc EXCEPT ![p].workers[w].st = "done"]
  /\ UNCHANGED <<client, index, mu, stored, disk, pc, call, ret, hist, calls>>

\* Lines 104-129: wg.Wait() returns when every worker is done; results is
\* closed, drained and put in the order of unique.
WaitAndCollect(p) ==
  /\ pc[p] = "wait"
  /\ \A w \in DOMAIN loc[p].workers : loc[p].workers[w].st = "done"
  /\ LET newTracks == collectTracks(loc[p].results)
         ordered == orderedNewTracks(loc[p].unique, newTracks)
     IN  /\ loc' = [loc EXCEPT
                      ![p].newTracks = newTracks,
                      ![p].errs = collectErrs(loc[p].results),
                      ![p].orderedNewTracks = ordered]
         /\ pc' = [pc EXCEPT ![p] = IF Len(ordered) > 0 THEN "merge"
                                    ELSE "snapshot"]
  /\ UNCHANGED <<client, index, mu, stored, disk, call, ret, hist, calls>>

FanNext ==
  \E p \in Procs :
    \/ \E w \in DOMAIN loc[p].workers :
         \/ SendJob(p, w)
         \/ LoadJob(p, w)
         \/ SendResult(p, w)
         \/ WorkerExit(p, w)
    \/ CloseJobs(p)
    \/ WaitAndCollect(p)

FanSpec == FanInit /\ [][FanNext]_vars

\* The Go scheduler runs every goroutine that can take a step.
FanLiveSpec == FanSpec /\ WF_vars(FanNext)

\* ------------------------------------------------------------------ the save, step by step
\* Line 143, part one: the argument m.order is evaluated, after Unlock, and
\* handed to storage.SaveLibrary as its parameter files.
SaveArgument(p) ==
  /\ pc[p] = "SaveLibrary"
  /\ loc' = [loc EXCEPT ![p].files = order]
  /\ pc' = [pc EXCEPT ![p] = "WriteFile"]
  /\ UNCHANGED <<client, index, mu, stored, disk, call, ret, hist, calls>>

\* Lines 143-145, part two: SaveLibrary marshals files and writes the file,
\* or fails.
WriteLibrary(p) ==
  /\ pc[p] = "WriteFile"
  /\ \E io \in BOOLEAN :
       IF io
       THEN /\ stored' = SaveLibrary(loc[p].files)
            /\ UNCHANGED <<loc, hist>>
       ELSE /\ loc' = [loc EXCEPT ![p].errs = Append(@, SaveErrorEntry)]
            /\ hist' = [hist EXCEPT ![p].saveFailed = TRUE]
            /\ UNCHANGED stored
  /\ pc' = [pc EXCEPT ![p] = "snapshot"]
  /\ UNCHANGED <<client, index, mu, disk, call, ret, calls>>

\* Concurrent AddFiles calls, the save in its two parts.
PersistNext ==
  \E p \in Procs :
    \/ AddFiles(p)
    \/ Lock(p)
    \/ FilterNew(p)
    \/ Worker(p)
    \/ Collect(p)
    \/ MergeTrack(p)
    \/ MergeUnlock(p)
    \/ SaveArgument(p)
    \/ WriteLibrary(p)
    \/ Snapshot(p)

PersistSpec == Init /\ [][PersistNext]_vars

\* ------------------------------------------------------------------ saving twice
\* The records of two saves of each of two tracks.
SaveInputs ==
  {[TrackMetadata(path) EXCEPT !.FileName = Base(path), !.Title = title] :
     path \in {"b.mp3", "c.wav"}, title \in {"One", "Two"}}

\* UpdateAndReload(md) with a record of SaveInputs.
UpdateSaved(p) ==
  \E md \in SaveInputs :
    Begin(p, [NoCall EXCEPT !.op = "UpdateAndReload", !.md = md],
          "SaveMetadata")

SaveNext ==
  \E p \in Procs :
    \/ UpdateSaved(p)
    \/ Save(p)
    \/ Reload(p)
    \/ Update(p)

SaveSpec == Init /\ [][SaveNext]_vars

\* ------------------------------------------------------------------ arbitrary overlays
\* The overlays a caller may hand to ApplyMetadata(path, overlay): their
\* FilePath is the path, another path, or empty.
AnyOverlays ==
  {[TrackMetadata(key) EXCEPT !.Title = "Hint"] : key \in {"a.flac", "b.mp3", ""}}

ApplyAnyMetadata(p) ==
  \E path \in Paths : \E overlay \in AnyOverlays :
    Begin(p, [NoCall EXCEPT !.op = "ApplyMetadata", !.path = path,
                            !.md = overlay], "apply")

\* The four operations, one call at a time.
KeyNext ==
  \E p \in Procs :
    /\ \A q \in Procs \ {p} : pc[q] = "idle"
    /\ \/ AddFiles(p)
       \/ LoadStoredLibrary(p)
       \/ ApplyAnyMetadata(p)
       \/ UpdateAndReload(p)
       \/ Lock(p)
       \/ FilterNew(p)
       \/ Worker(p)
       \/ Collect(p)
       \/ MergeTrack(p)
       \/ MergeUnlock(p)
       \/ Persist(p)
       \/ Snapshot(p)
       \/ Apply(p)
       \/ Save(p)
       \/ Reload(p)
       \/ Update(p)

KeySpec == Init /\ [][KeyNext]_vars

\* ------------------------------------------------------------------ clearing a field
\* The fields LoadMetadata copies from the tag as they are, with no default.
ClearFields == {"Comment", "Genre", "Composer", "Lyrics", "AlbumArtist"}

\* The records submitted to UpdateAndReload: every such field is empty.
ClearInputs ==
  {[TrackMetadata(path) EXCEPT !.FileName = Base(path), !.Title = "Edited"] :
     path \in Paths}

\* Where the previous sidecar of each file is: nowhere, in the hashed cache
\* or next to the audio file.
SidecarPlaces == {"none", "hashed", "legacy"}

\* The tagged files hold "Tagged" in one of the fields, and the previous
\* sidecars hold "Old" in it.
ClearInit ==
  /\ tracks = <<>>
  /\ order = <<>>
  /\ mu = NoOne
  /\ stored = NoStore
  /\ \E f \in ClearFields : \E place \in SidecarPlaces :
       LET old == [path \in Paths |->
                     <<Marshal([TrackMetadata(path) EXCEPT
                                  !.FileName = Base(path), ![f] = "Old"])>>]
           none == [path \in Paths |-> <<>>]
       IN  /\ files = [path \in Paths |->
                         IF PresentFile(path).tagged
                         THEN [PresentFile(path) EXCEPT !.tag[f] = "Tagged"]
                         ELSE PresentFile(path)]
           /\ sidecars = IF place = "hashed" THEN old ELSE none
           /\ legacy = IF place = "legacy" THEN old ELSE none
  /\ env = DiskOK
  /\ pc = [p \in Procs |-> "idle"]
  /\ call = [p \in Procs |-> NoCall]
  /\ loc = [p \in Procs |-> NoLoc]
  /\ ret = [p \in Procs |-> NoRet]
  /\ hist = [p \in Procs |-> NoHist]
  /\ calls = NoCalls
  /\ client = NoClient

\* UpdateAndReload(md) with a record of ClearInputs.
UpdateCleared(p) ==
  \E md \in ClearInputs :
    Begin(p, [NoCall EXCEPT !.op = "UpdateAndReload", !.md = md],
          "SaveMetadata")

ClearNext ==
  \E p \in Procs :
    \/ UpdateCleared(p)
    \/ Save(p)
    \/ Reload(p)
    \/ Update(p)

ClearSpec == ClearInit /\ [][ClearNext]_vars

\* ------------------------------------------------------------------ downloader
\* The call of p returns; err: with an error.
ClientReturn(p, err) ==
  /\ pc' = [pc EXCEPT ![p] = "idle"]
  /\ ret' = [ret EXCEPT ![p] = [NoRet EXCEPT !.done = TRUE, !.err = err]]

StartCall(p) == Begin(p, [NoCall EXCEPT !.op = "Start"], "Start")
StatusCall(p) == Begin(p, [NoCall EXCEPT !.op = "Status"], "Status")
StopCall(p) == Begin(p, [NoCall EXCEPT !.op = "Stop"], "Stop")

\* Start up to its second Lock: resolveAPIDir, ensureInstall or getNodePath
\* may fail; a running client returns nil.  The mutex is taken and released
\* for the read of running.
StartCheck(p) ==
  /\ pc[p] = "Start"
  /\ client.mu = NoOne
  /\ \E ok \in BOOLEAN :
       IF ~ok THEN ClientReturn(p, TRUE)
       ELSE IF client.running THEN ClientReturn(p, FALSE)
       ELSE /\ pc' = [pc EXCEPT ![p] = "startLock"]
            /\ UNCHANGED ret
  /\ UNCHANGED <<client, index, mu, stored, disk, call, loc, hist, calls>>

\* c.mu.Lock(); defer c.mu.Unlock(); if c.running { return nil }.
StartLock(p) ==
  /\ pc[p] = "startLock"
  /\ client.mu = NoOne
  /\ IF client.running
     THEN /\ ClientReturn(p, FALSE)
          /\ UNCHANGED client
     ELSE /\ client' = [client EXCEPT !.mu = p]
          /\ pc' = [pc EXCEPT ![p] = "spawn"]
          /\ UNCHANGED ret
  /\ UNCHANGED <<index, mu, stored, disk, call, loc, hist, calls>>

\* cmd.Start: on failure Start returns the error and the deferred Unlock
\* runs; otherwise the process is recorded, the goroutine that waits for it
\* is started with a fresh waitCh, and readyCtx begins.
Spawn(p) ==
  /\ pc[p] = "spawn"
  /\ \E ok \in BOOLEAN :
       IF ~ok
       THEN /\ ClientReturn(p, TRUE)
            /\ client' = [client EXCEPT !.mu = NoOne]
       ELSE /\ client' = [client EXCEPT !.cmd = TRUE, !.running = TRUE,
                                        !.api = "starting", !.waitCh = <<>>,
                                        !.expired = FALSE]
            /\ pc' = [pc EXCEPT ![p] = "waitForReady"]
            /\ UNCHANGED ret
  /\ UNCHANGED <<index, mu, stored, disk, call, loc, hist, calls>>

\* The API process begins to answer on its port.
ApiReady ==
  /\ client.api = "starting"
  /\ client' = [client EXCEPT !.api = "ready"]
  /\ UNCHANGED <<index, mu, stored, disk, pc, call, loc, ret, hist, calls>>

\* The API process exits by itself.
ApiExit ==
  /\ client.api \in {"starting", "ready"}
  /\ client' = [client EXCEPT !.api = "exited"]
  /\ UNCHANGED <<index, mu, stored, disk, pc, call, loc, ret, hist, calls>>

\* The goroutine of Start: cmd.Wait returns and the result is sent on waitCh,
\* whose buffer of one takes it.
WaiterSend ==
  /\ client.api = "exited"
  /\ client' = [client EXCEPT !.api = "reaped", !.waitCh = <<"exit">>,
                              !.pending = @ + 1]
  /\ UNCHANGED <<index, mu, stored, disk, pc, call, loc, ret, hist, calls>>

\* The goroutine of Start: c.mu.Lock(); c.running = false; c.cmd = nil;
\* c.mu.Unlock().
WaiterLock ==
  /\ client.pending > 0
  /\ client.mu = NoOne
  /\ client' = [client EXCEPT !.running = FALSE, !.cmd = FALSE,
                              !.pending = @ - 1]
  /\ UNCHANGED <<index, mu, stored, disk, pc, call, loc, ret, hist, calls>>

\* The eight seconds of readyCtx pass.
ReadyTimeout(p) ==
  /\ pc[p] = "waitForReady"
  /\ ~client.expired
  /\ client' = [client EXCEPT !.expired = TRUE]
  /\ UNCHANGED <<index, mu, stored, disk, pc, call, loc, ret, hist, calls>>

\* waitForReady: a ping is answered, Start returns nil and the deferred
\* Unlock runs.
Ready(p) ==
  /\ pc[p] = "waitForReady"
  /\ client.api = "ready"
  /\ ~client.expired
  /\ ClientReturn(p, FALSE)
  /\ client' = [client EXCEPT !.mu = NoOne]
  /\ UNCHANGED <<index, mu, stored, disk, call, loc, hist, calls>>

\* waitForReady returns an error: the ping has failed and readyCtx is done,
\* or waitCh delivers the exit of the process.  Start goes on to c.Stop(),
\* still holding the mutex.
NotReady(p) ==
  /\ pc[p] = "waitForReady"
  /\ client.api # "ready" \/ client.expired
  /\ \/ /\ client.expired
        /\ UNCHANGED client
     \/ /\ client.waitCh # <<>>
        /\ client' = [client EXCEPT !.waitCh = <<>>]
  /\ pc' = [pc EXCEPT ![p] = "Stop"]
  /\ UNCHANGED <<index, mu, stored, disk, call, loc, ret, hist, calls>>

\* Stop, called by the application or by Start: c.mu.Lock(), which waits
\* until the mutex is free whoever holds it; the process tree is killed;
\* c.cmd = nil; c.running = false; the deferred Unlock.  Within Start, what
\* follows is the return of the error and the deferred Unlock of Start.
Stop(p) ==
  /\ pc[p] = "Stop"
  /\ client.mu = NoOne
  /\ client' = [client EXCEPT
                  !.api = IF client.cmd /\ @ \in {"starting", "ready"}
                          THEN "exited" ELSE @,
                  !.cmd = FALSE, !.running = FALSE]
  /\ ClientReturn(p, call[p].op = "Start")
  /\ UNCHANGED <<index, mu, stored, disk, call, loc, hist, calls>>

\* Status up to its request: running and cmd are read under the mutex.
StatusRead(p) ==
  /\ pc[p] = "Status"
  /\ client.mu = NoOne
  /\ IF ~client.running
     THEN ClientReturn(p, FALSE)
     ELSE /\ pc' = [pc EXCEPT ![p] = "statusPing"]
          /\ UNCHANGED ret
  /\ UNCHANGED <<client, index, mu, stored, disk, call, loc, hist, calls>>

\* Status after its request: answered, or not answered by a process that is
\* not known to have exited, it returns; otherwise it goes for the mutex.
StatusPing(p) ==
  /\ pc[p] = "statusPing"
  /\ IF client.api = "reaped"
     THEN /\ pc' = [pc EXCEPT ![p] = "statusLock"]
          /\ UNCHANGED ret
     ELSE ClientReturn(p, FALSE)
  /\ UNCHANGED <<client, index, mu, stored, disk, call, loc, hist, calls>>

\* Status: c.mu.Lock(); c.running = false; c.cmd = nil; c.mu.Unlock().
StatusLock(p) ==
  /\ pc[p] = "statusLock"
  /\ client.mu = NoOne
  /\ client' = [client EXCEPT !.running = FALSE, !.cmd = FALSE]
  /\ ClientReturn(p, FALSE)
  /\ UNCHANGED <<index, mu, stored, disk, call, loc, hist, calls>>

ClientInit ==
  /\ tracks = <<>>
  /\ order = <<>>
  /\ mu = NoOne
  /\ stored = NoStore
  /\ files = [p \in Paths |-> PresentFile(p)]
  /\ sidecars = [p \in Paths |-> <<>>]
  /\ legacy = [p \in Paths |-> <<>>]
  /\ env = DiskOK
  /\ pc = [p \in Procs |-> "idle"]
  /\ call = [p \in Procs |-> NoCall]
  /\ loc = [p \in Procs |-> NoLoc]
  /\ ret = [p \in Procs |-> NoRet]
  /\ hist = [p \in Procs |-> NoHist]
  /\ calls = NoCalls
  /\ client = NoClient

ClientNext ==
  \/ ApiReady
  \/ ApiExit
  \/ WaiterSend
  \/ WaiterLock
  \/ \E p \in Procs :
       \/ StartCall(p)
       \/ StatusCall(p)
       \/ StopCall(p)
       \/ StartCheck(p)
       \/ StartLock(p)
       \/ Spawn(p)
       \/ ReadyTimeout(p)
       \/ Ready(p)
       \/ NotReady(p)
       \/ Stop(p)
       \/ StatusRead(p)
       \/ StatusPing(p)
       \/ StatusLock(p)

\* Every step that can be taken is taken in the end: the goroutines run, the
\* timer of readyCtx fires and a free mutex is handed to one that waits.
ClientSpec == ClientInit /\ [][ClientNext]_vars /\ WF_vars(ClientNext)

\* ------------------------------------------------------------------ properties
Batch(p) == call[p].op \in {"AddFiles", "LoadStoredLibrary"}

\* The call of p has returned and no call has begun since.
Returned(p) == ret[p].done /\ pc[p] = "idle"

\* Position of the first occurrence of x in s (0 when absent).
FirstIndex(s, x) ==
  IF \E i \in 1..Len(s) : s[i] = x
  THEN CHOOSE i \in 1..Len(s) : s[i] = x /\ \A j \in 1..(i - 1) : s[j] # x
  ELSE 0

\* The first occurrences of the paths of s, in order.
Dedup(s) == filterNew(s, <<>>)

\* The snapshots a process holds: the one its call returned and the one
\* loadAndMerge took at the end of its merge.
Held(p) == {ret[p].Tracks, loc[p].snapshot}

\* C1: whenever the mutex is free, the set of paths of the order sequence is
\* the set of keys of the track map, and no path occurs twice in the order
\* sequence.
C1_OrderMatchesMap ==
  mu = NoOne => (Range(order) = DOMAIN tracks /\ NoDup(order))

\* C1 witness: the Index holds a path that UpdateAndReload installed and a
\* second call has touched it.
C1_Witness ==
  /\ mu = NoOne
  /\ Len(order) >= 2
  /\ \E p \in Procs : Returned(p) /\ call[p].op = "UpdateAndReload" /\ ~ret[p].err
  /\ \E p \in Procs : Returned(p) /\ call[p].op = "ApplyMetadata"

\* C2: the paths a finished merge appended are all in a snapshot or all
\* missing from it, for every snapshot any process holds.
C2_BatchAtomic ==
  \A p \in Procs : \A q \in Procs : \A snap \in Held(q) :
    pc[p] # "mergeLocked" =>
      \/ Range(hist[p].added) \subseteq Range(PathsOf(snap))
      \/ Range(hist[p].added) \cap Range(PathsOf(snap)) = {}

\* C2 witness: a batch appended two paths and, before it returned, another
\* process was handed a snapshot that shows both.
C2_Witness ==
  \E p \in Procs : \E q \in Procs \ {p} :
    /\ Len(hist[p].added) = 2
    /\ pc[p] \in {"SaveLibrary", "snapshot"}
    /\ Returned(q) /\ Batch(q)
    /\ Range(hist[p].added) \subseteq Range(PathsOf(ret[q].Tracks))

\* C3: the paths a call appends are in the relative order of the input list.
C3_InputOrder ==
  \A p \in Procs : \A i \in 1..Len(hist[p].added) : \A j \in 1..Len(hist[p].added) :
    i < j => FirstIndex(call[p].paths, hist[p].added[i])
               < FirstIndex(call[p].paths, hist[p].added[j])

\* C3 witness: the second path was read first, and both were appended in
\* input order.
C3_Witness ==
  \E p \in Procs :
    /\ pc[p] = "mergeLocked"
    /\ Len(loc[p].unique) = 2
    /\ PathsOf(loc[p].newTracks) = <<loc[p].unique[2], loc[p].unique[1]>>
    /\ hist[p].added = loc[p].unique

\* A returned batch all of whose paths were new when it filtered them and
\* were read without error.
CleanBatch(p) ==
  /\ Returned(p) /\ Batch(p)
  /\ loc[p].unique = Dedup(call[p].paths)
  /\ Len(loc[p].unique) > 0
  /\ PathsOf(loc[p].orderedNewTracks) = loc[p].unique

\* p and q ran two batches on disjoint path sets and no other call ran
\* since the first of them began: p began with no call running, q began
\* next, and no call has begun since.
TwoBatches(p, q) ==
  /\ p # q
  /\ CleanBatch(p) /\ CleanBatch(q)
  /\ Range(loc[p].unique) \cap Range(loc[q].unique) = {}
  /\ calls.by = q
  /\ calls.after = p

\* The order sequence before either batch merged: the one the first of them
\* to filter found.
Previous(p, q) ==
  IF Len(hist[p].start) <= Len(hist[q].start) THEN hist[p].start
  ELSE hist[q].start

C5_AccessUnderMutex ==
  \A p \in Procs :
    pc[p] \in {"mergeLocked", "SaveLibrary"} => mu = p

\* Number of entries of an error list that are about path.
ErrorsAbout(errors, path) ==
  Cardinality({i \in 1..Len(errors) : errors[i][1] = path})

\* p and q ran two batches over the same path list, q right after p, and no
\* call has begun since.
Repeated(p, q) ==
  /\ p # q
  /\ Returned(p) /\ Batch(p)
  /\ Returned(q) /\ Batch(q)
  /\ call[q].paths = call[p].paths
  /\ calls.by = q
  /\ calls.after = p

\* C6: a batch repeated with the same path list returns a snapshot with the
\* paths of the first one, in the same order and without a duplicate, leaves
\* the order sequence as it found it, and reports no error about a path the
\* first call added.
C6_Idempotent ==
  \A p \in Procs : \A q \in Procs :
    Repeated(p, q) =>
      /\ PathsOf(ret[q].Tracks) = PathsOf(ret[p].Tracks)
      /\ NoDup(PathsOf(ret[q].Tracks))
      /\ order = hist[q].start
      /\ NoDup(order)
      /\ \A path \in Range(hist[p].added) :
           ErrorsAbout(ret[q].Errors, path) = 0

\* C6 witness: the repeated list has two paths, one added by the first call
\* and one that cannot be read.
C6_Witness ==
  \E p \in Procs : \E q \in Procs :
    /\ Repeated(p, q)
    /\ Len(call[p].paths) = 2
    /\ Len(hist[p].added) = 1
    /\ Len(ret[q].Errors) = 1

SnapshotTaken(q) ==
  IF pc[q] = "snapshot" /\ pc'[q] = "idle" THEN {ret'[q].Tracks}
  ELSE IF pc[q] = "mergeLocked" /\ pc'[q] \notin {"mergeLocked", "merge"}
       THEN {loc'[q].snapshot}
       ELSE {}

\* C8: every step leaves the order sequence a prefix of the new one, and the
\* paths of every snapshot held are a prefix of the paths of a snapshot taken.
C8_AppendOnly ==
  [][/\ IsPrefix(order, order')
     /\ \A p \in Procs : \A q \in Procs :
          \A s \in Held(p) : \A t \in SnapshotTaken(q) :
            IsPrefix(PathsOf(s), PathsOf(t))]_vars

\* C8 witness: a process holds a snapshot with a path, another one a longer
\* snapshot.
C8_Witness ==
  \E p \in Procs : \E q \in Procs :
    /\ Returned(p) /\ Returned(q)
    /\ Len(ret[p].Tracks) >= 1
    /\ Len(ret[q].Tracks) > Len(ret[p].Tracks)
    /\ IsPrefix(PathsOf(ret[p].Tracks), PathsOf(ret[q].Tracks))

\* An AddFiles call has just returned without a persistence error.
AddFilesSaved(p) ==
  /\ Returned(p)
  /\ call[p].op = "AddFiles"
  /\ calls.by = p
  /\ ~hist[p].saveFailed

\* C9 as stated: after an AddFiles call that found a path not yet indexed,
\* the persisted path list is the order sequence of the returned snapshot.
C9_PersistsWhenAnyNew ==
  \A p \in Procs :
    (AddFilesSaved(p) /\ Len(loc[p].unique) > 0) =>
      (LoadLibrary = order /\ order = PathsOf(ret[p].Tracks))

\* C9 amended: after an AddFiles call that read at least one new path, the
\* persisted path list is the order sequence of the returned snapshot.
C9_PersistsWhenMerged ==
  \A p \in Procs :
    (AddFilesSaved(p) /\ Len(loc[p].orderedNewTracks) > 0) =>
      (LoadLibrary = order /\ order = PathsOf(ret[p].Tracks))

\* C9 witness: the call appended to an Index that already had a path, and
\* the whole order was written.
C9_Witness ==
  \E p \in Procs :
    /\ AddFilesSaved(p)
    /\ Len(hist[p].added) >= 1
    /\ Len(order) > Len(hist[p].added)
    /\ LoadLibrary = order

\* C10: when SaveLibrary fails, the call returns no batch-level error, its
\* error list is the read errors followed by one "save library failed"
\* entry, and every path the batch merged is in the map, in the order
\* sequence and in the returned snapshot.
C10_SaveFailureReported ==
  \A p \in Procs :
    (Returned(p) /\ hist[p].saveFailed) =>
      /\ ~ret[p].err
      /\ Len(ret[p].Errors) >= 1
      /\ ret[p].Errors[Len(ret[p].Errors)] = SaveErrorEntry
      /\ ErrorsAbout(ret[p].Errors, SaveErrorEntry[1]) = 1
      /\ Len(ret[p].Errors) =
           1 + Cardinality({x \in Range(loc[p].unique) : ~files[x].exists})
      /\ Len(loc[p].orderedNewTracks) >= 1
      /\ \A path \in Range(PathsOf(loc[p].orderedNewTracks)) :
           /\ path \in DOMAIN tracks
           /\ path \in Range(order)
           /\ path \in Range(PathsOf(ret[p].Tracks))

\* C10 witness: a batch with a read error and a failed save has returned.
C10_Witness ==
  \E p \in Procs :
    /\ Returned(p) /\ hist[p].saveFailed
    /\ Len(ret[p].Errors) = 2
    /\ Len(ret[p].Tracks) >= 1

\* Process p takes this step.
StepOf(p) == <<pc[p], loc[p], ret[p]>> # <<pc'[p], loc'[p], ret'[p]>>

\* C11: no step of a LoadStoredLibrary call changes the persisted path list.
C11_LoadStoredNeverWrites ==
  [][\A p \in Procs :
       (call[p].op = "LoadStoredLibrary" /\ pc[p] # "idle" /\ StepOf(p))
         => stored' = stored]_vars

\* C11 witness: a LoadStoredLibrary call added a record, failed on another
\* stored path, and the stored list is the one it loaded.
C11_Witness ==
  \E p \in Procs :
    /\ Returned(p) /\ call[p].op = "LoadStoredLibrary"
    /\ Len(hist[p].added) >= 1
    /\ Len(ret[p].Errors) >= 1
    /\ LoadLibrary = call[p].paths

\* C12: a batch whose paths are all indexed when it filters them goes
\* straight to the snapshot, and a batch that does so reads no file, changes
\* neither the track map, the order sequence, the stored list nor the disk,
\* and returns the snapshot of that moment with no error.
C12_FastPath ==
  [][\A p \in Procs :
       Batch(p) =>
         /\ (pc[p] = "filterNew" /\ pc'[p] # "filterNew") =>
              /\ Range(call[p].paths) \subseteq DOMAIN tracks
                   => pc'[p] = "snapshot"
              /\ pc'[p] = "snapshot" => UNCHANGED <<index, stored, disk>>
         /\ (pc[p] = "snapshot" /\ pc'[p] = "idle" /\ loc[p].unique = <<>>) =>
              /\ UNCHANGED <<index, stored, disk>>
              /\ ret'[p].Tracks = snapshotLocked(order, tracks)
              /\ ret'[p].Errors = <<>>
              /\ ~ret'[p].err]_vars

\* C12 witness: a batch over a list that only repeats an indexed path has
\* returned the one-record snapshot without filtering anything in.
C12_Witness ==
  \E p \in Procs :
    /\ Returned(p) /\ Batch(p)
    /\ Len(call[p].paths) = 2
    /\ loc[p].unique = <<>>
    /\ loc[p].results = <<>>
    /\ Len(ret[p].Tracks) >= 1
    /\ ret[p].Errors = <<>>

\* mergeMetadata has returned to p.
Merged(p) == call[p].op = "mergeMetadata" /\ Returned(p)

\* C14: every field that is empty or 0 in the overlay has the base's value
\* in the merged record.
C14_NoClobber ==
  \A p \in Procs :
    Merged(p) =>
      LET base == call[p].base
          overlay == call[p].md
          merged == ret[p].md
      IN  /\ \A f \in StringFields \cup {"FilePath", "FileName"} :
               overlay[f] = "" => merged[f] = base[f]
          /\ \A f \in NumberFields : overlay[f] = 0 => merged[f] = base[f]
          /\ overlay.CoverImage = "" =>
               (merged.CoverImage = base.CoverImage
                  /\ merged.HasCover = base.HasCover)

\* C14 witness: base {title "X", artist ""} and overlay {title "", artist
\* "Y"} gave {title "X", artist "Y"}.
C14_Witness ==
  \E p \in Procs :
    /\ Merged(p)
    /\ call[p].base.Title = "X" /\ call[p].base.Artist = ""
    /\ call[p].md.Title = "" /\ call[p].md.Artist = "Y"
    /\ ret[p].md.Title = "X" /\ ret[p].md.Artist = "Y"

\* The cover of the merged record is the overlay's exactly when the overlay
\* has has-cover true and an image that is not blank.
CoverRule(base, overlay, merged) ==
  IF overlay.HasCover /\ TrimSpace(overlay.CoverImage) # ""
  THEN merged.CoverImage = overlay.CoverImage /\ merged.HasCover
  ELSE merged.CoverImage = base.CoverImage /\ merged.HasCover = base.HasCover

\* C15 as stated: every string field that is non-empty in the overlay and
\* every number field that is positive in it has the overlay's value in the
\* merged record, and the cover follows the cover rule.
C15_OverlayWinsNonEmpty ==
  \A p \in Procs :
    Merged(p) =>
      /\ \A f \in StringFields :
           call[p].md[f] # "" => ret[p].md[f] = call[p].md[f]
      /\ \A f \in NumberFields :
           call[p].md[f] > 0 => ret[p].md[f] = call[p].md[f]
      /\ CoverRule(call[p].base, call[p].md, ret[p].md)

\* C15 amended: every string field that is not blank in the overlay (not
\* empty once surrounding white space is trimmed) and every number field
\* that is positive in it has the overlay's value in the merged record, and
\* the cover follows the cover rule.
C15_OverlayWinsNonBlank ==
  \A p \in Procs :
    Merged(p) =>
      /\ \A f \in StringFields :
           TrimSpace(call[p].md[f]) # "" => ret[p].md[f] = call[p].md[f]
      /\ \A f \in NumberFields :
           call[p].md[f] > 0 => ret[p].md[f] = call[p].md[f]
      /\ CoverRule(call[p].base, call[p].md, ret[p].md)

\* C15 witness: an overlay with every field set was merged over a base with
\* every field set, and the overlay's title, year and cover won.
C15_Witness ==
  \E p \in Procs :
    /\ Merged(p)
    /\ call[p].base.Title = "X" /\ call[p].base.Year = 3
    /\ call[p].base.HasCover
    /\ ret[p].md.Title = "Y" /\ ret[p].md.Year = 7
    /\ ret[p].md.CoverImage = "data:image/png;base64,new"

\* C13: ApplyMetadata on an indexed path stores and returns
\* mergeMetadata(existing, overlay).
C13_ApplyIsMerge ==
  [][\A p \in Procs :
       (pc[p] = "apply" /\ pc'[p] = "idle" /\ call[p].path \in DOMAIN tracks)
         => /\ ret'[p].md = mergeMetadata(tracks[call[p].path], call[p].md)
            /\ tracks'[call[p].path] = ret'[p].md]_vars

\* LoadMetadata returns a record to p in this step.
Loads(p) == pc[p] = "readTrack" /\ pc'[p] = "idle" /\ ~ret'[p].err

\* C16 as stated: every string field that is non-empty and every number
\* field that is positive in a readable sidecar has the sidecar's value in
\* the record LoadMetadata returns.
C16_SidecarWinsNonEmpty ==
  [][\A p \in Procs :
       (Loads(p) /\ readSidecar(call[p].path).ok) =>
         LET side == readSidecar(call[p].path).md
         IN  /\ \A f \in StringFields \cup {"CoverImage"} :
                  side[f] # "" => ret'[p].md[f] = side[f]
             /\ \A f \in NumberFields :
                  side[f] > 0 => ret'[p].md[f] = side[f]]_vars

\* C16 amended: every string field that is not blank and every number field
\* that is positive in a readable sidecar has the sidecar's value in the
\* record LoadMetadata returns, and the cover is the sidecar's exactly when
\* the sidecar has has-cover true and an image that is not blank.
C16_SidecarWinsNonBlank ==
  [][\A p \in Procs :
       (Loads(p) /\ readSidecar(call[p].path).ok) =>
         LET side == readSidecar(call[p].path).md
         IN  /\ \A f \in StringFields :
                  TrimSpace(side[f]) # "" => ret'[p].md[f] = side[f]
             /\ \A f \in NumberFields :
                  side[f] > 0 => ret'[p].md[f] = side[f]
             /\ CoverRule(tagMetadata(call[p].path), side, ret'[p].md)]_vars

\* C16 witness: the file's tag has every field set, the sidecar too, and the
\* record returned has the sidecar's title, year and cover.
C16_Witness ==
  \E p \in Procs :
    /\ call[p].op = "LoadMetadata" /\ Returned(p) /\ ~ret[p].err
    /\ files[call[p].path].tagged
    /\ files[call[p].path].tag.Title = "T"
    /\ sidecars[call[p].path] # <<>>
    /\ ret[p].md.Title = "Y" /\ ret[p].md.Year = 7
    /\ ret[p].md.CoverImage = "data:image/png;base64,new"

\* p wrote a sidecar and q then read the same path: p's call began with no
\* call running, it returned without error before q's began, and q's is the
\* latest call and has returned.
WroteThenRead(p, q) ==
  /\ p # q
  /\ call[p].op = "writeSidecar" /\ Returned(p) /\ ~ret[p].err
  /\ call[q].op = "readSidecar" /\ Returned(q)
  /\ call[q].path = call[p].path
  /\ calls.by = q /\ calls.alone /\ calls.after = p

\* Every string of the record is valid UTF-8.
ValidUTF8(md) ==
  \A f \in StringFields \cup {"FilePath", "FileName", "CoverImage"} :
    CoerceUTF8(md[f]) = md[f]

\* The record read is the record written, but for the two fields derived
\* from the lookup path.
RoundTrip(p, q) ==
  /\ ~ret[q].err
  /\ ret[q].md = [call[p].md EXCEPT !.FilePath = call[q].path,
                                    !.FileName = Base(call[q].path)]

\* C17 as stated: a read that follows a write of the same path returns the
\* record written, with filePath and fileName taken from the lookup path.
C17_RoundTrip ==
  \A p \in Procs : \A q \in Procs :
    WroteThenRead(p, q) => RoundTrip(p, q)

\* C17 amended: the same for a record whose strings are valid UTF-8.
C17_RoundTripValidUTF8 ==
  \A p \in Procs : \A q \in Procs :
    (WroteThenRead(p, q) /\ ValidUTF8(call[p].md)) => RoundTrip(p, q)

\* C17 witness: the audio file is absent, the record written carried another
\* file's name, and the read returned it under the name of the lookup path.
C17_Witness ==
  \E p \in Procs : \E q \in Procs :
    /\ WroteThenRead(p, q)
    /\ ~files[call[q].path].exists
    /\ call[p].md.FileName = "other.flac"
    /\ ~ret[q].err
    /\ ret[q].md.FileName = "a.flac"

\* C18: the migration step of a read leaves a document stored at the hashed
\* location as it is.
C18_MigrationNeverOverwrites ==
  [][\A p \in Procs :
       (pc[p] = "migrate" /\ pc'[p] = "idle"
          /\ sidecars[call[p].path] # <<>>)
         => sidecars'[call[p].path] = sidecars[call[p].path]]_vars

\* C19: writeSidecar returns an error only if the legacy location cannot be
\* written, and when it returns none the document is the one a read finds.
C19_WriteDegradesToLegacy ==
  [][\A p \in Procs :
       (pc[p] = "writeSidecar" /\ pc'[p] = "idle") =>
         /\ ret'[p].err => ~env.legacyOK
         /\ ~ret'[p].err => ReadData(call[p].path)' = <<Marshal(call[p].md)>>]_vars

\* C20: right after ClearSidecarCache returns without error, readSidecar
\* finds no document for any path.
C20_ClearRemovesAll ==
  [][\A p \in Procs :
       (pc[p] = "ClearSidecarCache" /\ pc'[p] = "idle" /\ ~ret'[p].err)
         => \A path \in Paths : ReadData(path)' = <<>>]_vars

\* C21: a step of UpdateAndReload that saves or re-reads leaves the track map
\* and the order sequence as they are and, when it ends the call, returns
\* the error; the step that ends a call whose save and re-read succeeded puts
\* the re-read record under its path, appends the path to the order sequence
\* only when it was absent, touches no other record and returns that record.
C21_UpdateOnlyOnSuccess ==
  [][\A p \in Procs :
       /\ (pc[p] \in {"SaveMetadata", "LoadMetadata"} /\ pc'[p] # pc[p]) =>
            /\ UNCHANGED index
            /\ pc'[p] = "idle" => ret'[p].err
       /\ (pc[p] = "update" /\ pc'[p] = "idle") =>
            LET path == call[p].md.FilePath
            IN  /\ ~ret'[p].err
                /\ ret'[p].md = loc[p].refreshed
                /\ ret'[p].md.FilePath = path
                /\ DOMAIN tracks' = DOMAIN tracks \cup {path}
                /\ tracks'[path] = ret'[p].md
                /\ \A other \in DOMAIN tracks \ {path} :
                     tracks'[other] = tracks[other]
                /\ order' = IF path \in Range(order) THEN order
                            ELSE Append(order, path)]_vars

\* C21 witness: one call saved the sidecar of a file that is gone, failed on
\* the re-read and left the Index without the path; another call replaced
\* the record of a path that was in the Index.
C21_Witness ==
  \E p \in Procs : \E q \in Procs \ {p} :
    /\ Returned(p) /\ call[p].op = "UpdateAndReload" /\ ret[p].err
    /\ sidecars[call[p].md.FilePath] # <<>>
    /\ call[p].md.FilePath \notin DOMAIN tracks
    /\ Returned(q) /\ call[q].op = "UpdateAndReload" /\ ~ret[q].err
    /\ tracks[call[q].md.FilePath] = ret[q].md
    /\ order = <<call[q].md.FilePath>>

\* An UpdateAndReload call that began with no call running has returned
\* without error, and no call has begun since.
UpdatedAlone(p) ==
  /\ Returned(p) /\ call[p].op = "UpdateAndReload" /\ ~ret[p].err
  /\ calls.by = p /\ calls.alone

\* C22: after a successful UpdateAndReload, a field that was empty in the
\* submitted record is empty in the record returned and installed.
C22_UpdateClearsField ==
  \A p \in Procs : \A f \in ClearFields :
    (UpdatedAlone(p) /\ call[p].md[f] = "") =>
      /\ ret[p].md[f] = ""
      /\ tracks[call[p].md.FilePath][f] = ""

\* The minimal record of a path, field by field.
Minimal(path) ==
  [TrackMetadata(path) EXCEPT
     !.FileName = Base(path),
     !.Title = IF path = "a.flac" THEN "a" ELSE IF path = "b.mp3" THEN "b"
               ELSE "c",
     !.Artist = "Unknown Artist",
     !.Album = "Unknown Album",
     !.Format = IF path = "a.flac" THEN "FLAC"
                ELSE IF path = "b.mp3" THEN "MP3" ELSE "WAV"]

\* What LoadMetadata is to return for a file whose tag it cannot extract: the
\* minimal record under the sidecar, or alone when the sidecar cannot be read.
MinimalUnderSidecar(path) ==
  IF readSidecar(path).ok
  THEN mergeMetadata(Minimal(path), readSidecar(path).md)
  ELSE Minimal(path)

\* C23 as stated: for every path whose tag cannot be extracted, LoadMetadata
\* returns without error the minimal record with the sidecar merged on top.
C23_NeverFails ==
  [][\A p \in Procs :
       (pc[p] = "readTrack" /\ pc'[p] = "idle"
          /\ ~files[call[p].path].tagged)
         => /\ ~ret'[p].err
            /\ ret'[p].md = MinimalUnderSidecar(call[p].path)]_vars

\* C23 amended: the same for every path whose file can be opened.
C23_NeverFailsOnOpenedFile ==
  [][\A p \in Procs :
       (pc[p] = "readTrack" /\ pc'[p] = "idle"
          /\ files[call[p].path].exists /\ ~files[call[p].path].tagged)
         => /\ ~ret'[p].err
            /\ ret'[p].md = MinimalUnderSidecar(call[p].path)]_vars

\* C23 witness: the read of a file without a readable tag has returned the
\* minimal record with the title of the file's sidecar.
C23_Witness ==
  \E p \in Procs :
    /\ Returned(p) /\ call[p].op = "LoadMetadata" /\ ~ret[p].err
    /\ call[p].path = "c.wav"
    /\ files["c.wav"].exists /\ ~files["c.wav"].tagged
    /\ ret[p].md.Title = "Y"
    /\ ret[p].md.Artist = "Unknown Artist"
    /\ ret[p].md.Format = "WAV"

\* Process p calls LoadStoredLibrary in this step.
LoadsStored(p) ==
  /\ calls'.n = calls.n + 1
  /\ calls'.by = p
  /\ call'[p].op = "LoadStoredLibrary"

\* C24: a LoadStoredLibrary that finds no file under the current name and a
\* path list under the legacy name loads the legacy list, and no step
\* changes the file under the legacy name.
C24_LegacyStoreFallback ==
  [][/\ stored'.metago = stored.metago
     /\ \A p \in Procs :
          (LoadsStored(p) /\ stored.kitty.state = "absent"
             /\ stored.metago.state = "ok")
            => /\ ~ret'[p].err
               /\ call'[p].paths = stored.metago.files]_vars

\* Number of LoadMetadata calls the fan-out of p made for path.
ReadsOf(p, path) ==
  Cardinality({k \in 1..Len(loc[p].reads) : loc[p].reads[k].path = path})

\* The fan-out of p is over: the results are drained and the merge is next.
Collected(p) == pc[p] \in {"merge", "snapshot"} /\ loc[p].closed

\* No path is read twice; and when the fan-out is over every path was read
\* once, there is one result per path, the paths read are the new tracks and
\* the error entries, and every worker is done.
FanOutSafe ==
  \A p \in Procs :
    /\ \A path \in Paths : ReadsOf(p, path) <= 1
    /\ Collected(p) =>
         /\ \A path \in Range(loc[p].unique) : ReadsOf(p, path) = 1
         /\ Len(loc[p].reads) = Len(loc[p].unique)
         /\ Len(loc[p].results) = Len(loc[p].unique)
         /\ Read(p) = Range(loc[p].unique)
         /\ Len(loc[p].newTracks) + Len(loc[p].errs) = Len(loc[p].unique)
         /\ \A w \in DOMAIN loc[p].workers : loc[p].workers[w].st = "done"

\* C25: the fan-out of a batch always comes to its end, no path is read
\* twice, and at the end every path was read once, as many results were
\* collected as there are paths, and every worker has exited.
C25_FanOutTerminates ==
  /\ []FanOutSafe
  /\ <>Collected("g1")

\* C25 witness: three paths were read by two workers, one of them twice at
\* work, the second path before the first, and the fan-out is over.
C25_Witness ==
  /\ Collected("g1")
  /\ Len(loc["g1"].unique) = 3
  /\ Len(loc["g1"].workers) = 2
  /\ loc["g1"].reads[1].path = loc["g1"].unique[2]
  /\ Len(loc["g1"].results) = 3

\* An AddFiles call of p merged at least one record, saved without error and
\* has returned.
SavedBatch(p) ==
  /\ Returned(p) /\ call[p].op = "AddFiles"
  /\ Len(loc[p].orderedNewTracks) > 0
  /\ ~hist[p].saveFailed

\* C26: when the AddFiles calls of all processes have merged, saved without
\* error and returned, the persisted path list is the order sequence.
C26_ConcurrentSavesConverge ==
  (\A p \in Procs : SavedBatch(p)) => LoadLibrary = order

\* C27: a round of the merge loop leaves the record of every path that is in
\* the track map as it is.
C27_MergeKeepsIndexed ==
  [][\A p \in Procs :
       (pc[p] = "mergeLocked" /\ loc'[p].i = loc[p].i + 1)
         => \A path \in DOMAIN tracks : tracks'[path] = tracks[path]]_vars

\* p and q have saved the same track, and both calls have returned without
\* error.
SavedSameTrack(p, q) ==
  /\ p # q
  /\ Returned(p) /\ call[p].op = "UpdateAndReload" /\ ~ret[p].err
  /\ Returned(q) /\ call[q].op = "UpdateAndReload" /\ ~ret[q].err
  /\ call[p].md.FilePath = call[q].md.FilePath

\* C28: after two saves of the same track, the record of the Index is the
\* one LoadMetadata returns for the path.
C28_LastWriterWins ==
  \A p \in Procs : \A q \in Procs :
    SavedSameTrack(p, q) =>
      tracks[call[p].md.FilePath] = LoadMetadata(call[p].md.FilePath).md

C30_StartAlwaysReturns ==
  \A p \in Procs :
    (call[p].op \in {"Start", "Status", "Stop"} /\ pc[p] # "idle")
      ~> (pc[p] = "idle")

====
